---------------------------- MODULE Spec2Model ----------------------------
(***************************************************************************)
(* The IPI multiplexer and the cross-CPU stop operations of the pipelined  *)
(* RISC-V port (CONFIG_IRQ_PIPELINE, CONFIG_KEXEC_CORE, CONFIG_SMP and     *)
(* CONFIG_GENERIC_CLOCKEVENTS_BROADCAST enabled), with the virtual         *)
(* interrupt flag, the stage entry, the hart id table, the statistics      *)
(* report and the trap notification macros of the same port.               *)
(*                                                                         *)
(* Every CPU runs one thread of kernel code (pc) that the shared in-band   *)
(* IPI line can preempt (hpc).  A step of the model is one access to       *)
(* shared memory, in program order.                                        *)
(***************************************************************************)
EXTENDS Integers, FiniteSets, Sequences

(* ------------------------------ bounds --------------------------------- *)

\* Number of calls of the send/stop entry points in one behaviour.
MaxCalls == 2

\* Iterations of the bounded wait loops (one second in the kernel, scaled).
USEC_PER_SEC == 2

\* Number of calls of the registration entry point in one behaviour.
MaxRegs == 2

\* Depth to which one CPU nests saved interrupt flags.
MaxDepth == 2

\* Depth to which interrupts nest on one CPU.
MaxNest == 2

\* Number of traps one CPU takes in one behaviour.
MaxTraps == 2

\* Largest hart id of the machine.
MaxHart == 3

(* ------------------------- program constants --------------------------- *)

\* Size of the per-CPU tables: the build is configured for two CPUs.
NR_CPUS == 2

IPI_RESCHEDULE == 0
IPI_CALL_FUNC == 1
IPI_CPU_STOP == 2
IPI_CPU_CRASH_STOP == 3
IPI_IRQ_WORK == 4
IPI_TIMER == 5
IPI_MAX == 6

OOB_NR_IPI == 3
OOB_IPI_OFFSET == 1

\* A NULL entry of ipi_desc[] (static storage is zero-initialised).
NoDesc == 0

\* "unsigned long timeout" after the post-decrement of 0: ULONG_MAX, written
\* as the two's complement reading of the same bits.
ULONG_MAX == 0 - 1

CPUs == 0 .. (NR_CPUS - 1)
Reasons == 0 .. (IPI_MAX - 1)

\* Arguments the interrupt controller driver passes at registration.
VirqChoices == {1, 8}
NrChoices == {IPI_MAX - 1, IPI_MAX + 1}

\* Interrupt numbers a descriptor can stand for.
MaxIrq == 8 + IPI_MAX
Irqs == 1 .. MaxIrq

Min(S) == CHOOSE x \in S : \A y \in S : x <= y

\* Bits of the status register, asm/irq_pipeline.h.
RISCV_STATUS_SIE_BIT == 1
RISCV_STATIS_SS_BIT == 31
RISCV_STATUS_MIE_BIT == 3

\* CONFIG_RISCV_M_MODE: the kernel of a machine without MMU runs in M-mode.
RISCV_M_MODE == TRUE

RISCV_STATUS_IE_BIT ==
  IF RISCV_M_MODE THEN RISCV_STATUS_MIE_BIT ELSE RISCV_STATUS_SIE_BIT

\* A status word is the set of its set bits (bit 31 does not fit an integer
\* of the checker); these are the bits the model lets a word carry.
StatusBits == {RISCV_STATUS_SIE_BIT, RISCV_STATUS_MIE_BIT, RISCV_STATIS_SS_BIT}
StatusWords == SUBSET StatusBits

\* The hart ids of the machine, and the value of the unmapped table slots.
Harts == 0 .. MaxHart
INVALID_HARTID == ULONG_MAX
ENOENT == 2

(* ------------------------------- state --------------------------------- *)

VARIABLES
  \* registration (riscv_ipi_set_virq_range)
  ipi_virq_base,        \* int ipi_virq_base, 0 while unset
  nr_ipi,               \* static int nr_ipi
  ipi_desc,             \* ipi_desc[IPI_MAX]: the irq of the descriptor, or NoDesc
  irq_requested,        \* irqs whose per-CPU handler is handle_IPI
  irq_hidden,           \* irqs carrying IRQ_HIDDEN
  irq_enabled,          \* per CPU: the irqs enabled on it
  riscv_ipi_for_rfence, \* the static key
  reg_warn,             \* WARN_ONs raised by the registration
  reg_calls,            \* calls of riscv_ipi_set_virq_range so far (observation)
  reg_nr,               \* the nr argument of the last call (observation)
  reg_i,                \* the loop index i of the call in progress
  reg_rfence,           \* the use_for_rfence argument of the call in progress
  en_i,                 \* per CPU: the loop index i of its call of
                        \* riscv_ipi_enable or riscv_ipi_disable in progress
  \* build configuration
  pipeline_debug,       \* irq_pipeline_debug()
  \* SMP state
  cpu_online_mask,      \* set of online CPUs
  ipi_messages,         \* per-CPU pending mask, as the set of its set bits
  ipi_counts,           \* per-CPU ipi_counts[IPI_MAX]
  ipi_pending,          \* per-CPU: the shared line is raised and not yet taken
  waiting_for_crash_ipi,
  cpus_stopped,         \* the static guard of crash_smp_send_stop
  \* per-CPU control state
  pc,                   \* position of the CPU's thread
  hpc,                  \* position of the CPU inside handle_IPI
  ipinr,                \* handle_IPI's local
  s_op, s_mask, s_todo, s_ret,  \* locals of the send in progress
  timeout,              \* local of smp_send_stop / crash_smp_send_stop
  \* observation (not read by the program)
  ncalls,               \* entry points called so far
  ipi_raised,           \* per CPU and irq: times the line was raised
  oob_calls,            \* per CPU and irq: in-window irq_send_oob_ipi calls
  nset,                 \* per CPU and reason: set_bit calls of in-band sends
  coalesced,            \* per CPU and reason: set_bit calls that found the bit set
  raised_for,           \* per CPU and reason: shared-line raises by sends of it
  last_ipi,             \* per CPU: <<ipinr, handler>> of the last __handle_IPI
  handler_runs,         \* per CPU and handler: invocations
  ndispatch,            \* per CPU and bit: __handle_IPI calls of the drain loop
  polls,                \* udelay(1) steps of the wait loop in progress
  warned,               \* per CPU: functions whose warning fired in their last call
  crash_calls,          \* calls of crash_smp_send_stop
  crash_broadcasts,     \* crash-stop broadcasts started
  crash_targets,        \* target mask of the last crash-stop broadcast
  oops,                 \* a NULL descriptor was dereferenced
  \* the virtual interrupt flag: asm/irq_pipeline.h
  stall,                \* per CPU: the in-band stall bit (1 = stalled)
  hard_ie,              \* per CPU: the interrupt-enable bit of the status CSR
  saved,                \* per CPU: the flags words its callers hold, innermost
                        \* last, each with the stall bit when it was captured
  last_restore,         \* per CPU: the depth of the word it restored last
                        \* and the stall bit captured with it (observation)
  conv,                 \* the last application of a conversion helper
  \* the stage entry: arch_do_IRQ_pipelined
  idle_task,            \* per CPU: is_idle_task(current)
  irq_regs,             \* per CPU: __irq_regs, the active register frame
  ct_nesting,           \* per CPU: ct_irq_enter() calls not yet matched by
                        \* ct_irq_exit()
  irq_frames,           \* per CPU: the locals of the calls of
                        \* arch_do_IRQ_pipelined in progress, innermost last
  irq_done,             \* per CPU: what the call that returned last did
  \* the hart id table
  cpuid_to_hartid_map,  \* __cpuid_to_hartid_map[NR_CPUS]
  lookup,               \* the last call of riscv_hartid_to_cpuid: its
                        \* argument, its value and the table it ran on
  \* the statistics report
  kstat_irqs,           \* per CPU and irq: desc->kstat_irqs, the interrupts
                        \* the CPU took on the line
  seq_out,              \* what the last call of show_ipi_stats printed: per
                        \* row the value under each CPU, with ipi_counts of
                        \* that CPU and reason when the value was read
  stat_i,               \* show_ipi_stats' loop index i
  stat_cpu,             \* show_ipi_stats' cursor cpu of for_each_online_cpu,
                        \* -1 before the first CPU of a row
  \* trap notification: asm/dovetail.h
  stage,                \* per CPU: the stage it runs on, "inband" or "oob"
  dovetail_debug,       \* dovetail_debug(): CONFIG_DEBUG_DOVETAIL of the build
  tpc,                  \* per CPU: "handling" while the caller of a trap
                        \* entry macro handles the trap after a true value,
                        \* "unwound" while it does after a false one, "bug"
                        \* once BUG_ON fired
  notifies,             \* per CPU: calls of oob_trap_notify
  unwinds,              \* per CPU: calls of oob_trap_unwind
  trap_last,            \* per CPU: the value mark_cond_trap_entry returned
                        \* last, with what running_inband() was and the
                        \* unwinds it made
  blind_exits           \* per CPU: calls of mark_trap_exit made after a
                        \* false value (observation)

regvars == <<ipi_virq_base, nr_ipi, ipi_desc, irq_requested, irq_hidden,
             irq_enabled, riscv_ipi_for_rfence, reg_warn, reg_calls, reg_nr,
             reg_i, reg_rfence, en_i>>
smpvars == <<cpu_online_mask, ipi_messages, ipi_counts, ipi_pending,
             waiting_for_crash_ipi, cpus_stopped>>
ctlvars == <<pc, hpc, ipinr, s_op, s_mask, s_todo, s_ret, timeout>>
obsvars == <<ncalls, ipi_raised, oob_calls, nset, coalesced, raised_for,
             last_ipi, handler_runs, ndispatch, polls, warned, crash_calls,
             crash_broadcasts, crash_targets, oops>>
flagvars == <<stall, hard_ie, saved, last_restore, conv>>
rcuvars == <<idle_task, irq_regs, ct_nesting, irq_frames, irq_done>>
hartvars == <<cpuid_to_hartid_map, lookup>>
statvars == <<kstat_irqs, seq_out, stat_i, stat_cpu>>
trapvars == <<dovetail_debug, stage, tpc, notifies, unwinds, trap_last,
             blind_exits>>
archvars == <<flagvars, rcuvars, hartvars, statvars, trapvars>>
smpall == <<regvars, pipeline_debug, smpvars, ctlvars, obsvars>>
vars == <<smpall, archvars>>

\* What the operations of each part of asm/ leave alone.
flagframe == <<smpall, rcuvars, hartvars, statvars, trapvars>>
rcuframe == <<smpall, flagvars, hartvars, statvars, trapvars>>
hartframe == <<smpall, flagvars, rcuvars, statvars, trapvars>>
statframe == <<flagvars, rcuvars, hartvars, trapvars>>
trapframe == <<smpall, flagvars, rcuvars, hartvars, statvars>>

Handlers == {"scheduler_ipi", "generic_smp_call_function_interrupt",
             "ipi_stop", "ipi_cpu_crash_stop", "irq_work_run",
             "tick_receive_broadcast", "unhandled"}


\* The CPU that boots the kernel and registers the IPI range.
BootCpu == Min(CPUs)

Init ==
  /\ ipi_virq_base = 0
  /\ nr_ipi = IPI_MAX
  /\ ipi_desc = [i \in Reasons |-> NoDesc]
  /\ irq_requested = {}
  /\ irq_hidden = {}
  /\ irq_enabled = [c \in CPUs |-> {}]
  /\ riscv_ipi_for_rfence = FALSE
  /\ reg_warn = {}
  /\ reg_calls = 0
  /\ reg_nr = 0
  /\ reg_i = 0
  /\ reg_rfence = FALSE
  /\ en_i = [c \in CPUs |-> 0]
  /\ pipeline_debug \in BOOLEAN
  /\ cpu_online_mask \in {CPUs, {BootCpu}}
  /\ ipi_messages = [c \in CPUs |-> {}]
  /\ ipi_counts = [c \in CPUs |-> [r \in Reasons |-> 0]]
  /\ ipi_pending = [c \in CPUs |-> FALSE]
  /\ waiting_for_crash_ipi = 0
  /\ cpus_stopped = FALSE
  /\ pc = [c \in CPUs |-> IF c \in cpu_online_mask THEN "idle" ELSE "off"]
  /\ hpc = [c \in CPUs |-> "none"]
  /\ ipinr = [c \in CPUs |-> 0]
  /\ s_op = [c \in CPUs |-> 0]
  /\ s_mask = [c \in CPUs |-> {}]
  /\ s_todo = [c \in CPUs |-> {}]
  /\ s_ret = [c \in CPUs |-> "idle"]
  /\ timeout = [c \in CPUs |-> 0]
  /\ ncalls = 0
  /\ ipi_raised = [c \in CPUs |-> [i \in Irqs |-> 0]]
  /\ oob_calls = [c \in CPUs |-> [i \in Irqs |-> 0]]
  /\ nset = [c \in CPUs |-> [r \in Reasons |-> 0]]
  /\ coalesced = [c \in CPUs |-> [r \in Reasons |-> 0]]
  /\ raised_for = [c \in CPUs |-> [r \in Reasons |-> 0]]
  /\ last_ipi = [c \in CPUs |-> <<>>]
  /\ handler_runs = [c \in CPUs |-> [h \in Handlers |-> 0]]
  /\ ndispatch = [c \in CPUs |-> [r \in Reasons |-> 0]]
  /\ polls = [c \in CPUs |-> 0]
  /\ warned = [c \in CPUs |-> {}]
  /\ crash_calls = 0
  /\ crash_broadcasts = 0
  /\ crash_targets = {}
  /\ oops = FALSE
  /\ stall = [c \in CPUs |-> 0]
  /\ hard_ie = [c \in CPUs |-> TRUE]
  /\ saved = [c \in CPUs |-> <<>>]
  /\ last_restore = [c \in CPUs |-> <<>>]
  /\ conv = [fn |-> "none", flags |-> {}, stalled |-> 0, out |-> {}]
  /\ idle_task = [c \in CPUs |-> TRUE]
  /\ irq_regs = [c \in CPUs |-> "NULL"]
  /\ ct_nesting = [c \in CPUs |-> 0]
  /\ irq_frames = [c \in CPUs |-> <<>>]
  /\ irq_done = [c \in CPUs |-> <<>>]
  /\ cpuid_to_hartid_map = [c \in CPUs |-> INVALID_HARTID]
  /\ lookup = [done |-> FALSE, hartid |-> 0, ret |-> 0,
               table |-> cpuid_to_hartid_map]
  /\ kstat_irqs = [c \in CPUs |-> [i \in Irqs |-> 0]]
  /\ seq_out = [shown |-> FALSE, rows |-> <<>>, counts |-> <<>>]
  /\ stat_i = 0
  /\ stat_cpu = 0 - 1
  /\ dovetail_debug \in BOOLEAN
  /\ stage = [c \in CPUs |-> "inband"]
  /\ tpc = [c \in CPUs |-> "none"]
  /\ notifies = [c \in CPUs |-> 0]
  /\ unwinds = [c \in CPUs |-> 0]
  /\ trap_last = [c \in CPUs |-> <<>>]
  /\ blind_exits = [c \in CPUs |-> 0]

(* ---------------------------- registration ----------------------------- *)

\* min(nr, IPI_MAX)
MinInt(a, b) == IF a < b THEN a ELSE b

\* irqs_pipelined(): the model is of the pipelined build.
irqs_pipelined == TRUE

\* What the steps of riscv_ipi_enable and riscv_ipi_disable leave alone,
\* besides irq_enabled, reg_warn, their loop index and the caller's position.
enableframe == <<ipi_virq_base, nr_ipi, ipi_desc, irq_requested, irq_hidden,
                 riscv_ipi_for_rfence, reg_calls, reg_nr, reg_i, reg_rfence,
                 pipeline_debug, smpvars, hpc, ipinr, s_op, s_mask, s_todo,
                 s_ret, timeout, obsvars, archvars>>

\* riscv_ipi_enable() on CPU c, up to the head of its loop: WARN_ON_ONCE and
\* return (to the position `ret`) while no base is set; otherwise i = 0, and
\* the loop runs at the position `loop` unless it has no iteration to make.
riscv_ipi_enable(c, loop, ret) ==
  IF ipi_virq_base = 0
  THEN /\ reg_warn' = reg_warn \cup {"riscv_ipi_enable"}
       /\ pc' = [pc EXCEPT ![c] = ret]
       /\ UNCHANGED en_i
  ELSE /\ en_i' = [en_i EXCEPT ![c] = 0]
       /\ pc' = [pc EXCEPT ![c] = IF 0 < nr_ipi THEN loop ELSE ret]
       /\ UNCHANGED reg_warn

\* riscv_ipi_disable() on CPU c, up to the head of its loop: the same test.
riscv_ipi_disable(c, loop, ret) ==
  IF ipi_virq_base = 0
  THEN /\ reg_warn' = reg_warn \cup {"riscv_ipi_disable"}
       /\ pc' = [pc EXCEPT ![c] = ret]
       /\ UNCHANGED en_i
  ELSE /\ en_i' = [en_i EXCEPT ![c] = 0]
       /\ pc' = [pc EXCEPT ![c] = IF 0 < nr_ipi THEN loop ELSE ret]
       /\ UNCHANGED reg_warn

\* A CPU that comes up calls riscv_ipi_enable() from its idle thread.
riscv_ipi_enable_call(c) ==
  /\ pc[c] = "idle" /\ hpc[c] = "none"
  /\ riscv_ipi_enable(c, "enable", "idle")
  /\ UNCHANGED <<irq_enabled, enableframe>>

\* A CPU that goes down calls riscv_ipi_disable() from its idle thread.
riscv_ipi_disable_call(c) ==
  /\ pc[c] = "idle" /\ hpc[c] = "none"
  /\ riscv_ipi_disable(c, "disable", "idle")
  /\ UNCHANGED <<irq_enabled, enableframe>>

\* The end of an iteration of the loop of riscv_ipi_enable or
\* riscv_ipi_disable on CPU c: i++, and the return to `ret` after the last
\* line.
enable_next(c, ret) ==
  IF en_i[c] + 1 < nr_ipi
  THEN /\ en_i' = [en_i EXCEPT ![c] = @ + 1]
       /\ UNCHANGED pc
  ELSE /\ en_i' = [en_i EXCEPT ![c] = 0]
       /\ pc' = [pc EXCEPT ![c] = ret]

\* riscv_ipi_enable, in its loop: enable_percpu_irq(ipi_virq_base + i, 0), on
\* the calling CPU.  The call was made by the CPU's thread or by
\* riscv_ipi_set_virq_range.
riscv_ipi_enable_line(c) ==
  /\ pc[c] \in {"enable", "reg_enabling"} /\ hpc[c] = "none"
  /\ irq_enabled' = [irq_enabled EXCEPT
                       ![c] = @ \cup {ipi_virq_base + en_i[c]}]
  /\ enable_next(c, IF pc[c] = "enable" THEN "idle" ELSE "reg_rfence")
  /\ UNCHANGED <<reg_warn, enableframe>>

\* riscv_ipi_disable, in its loop: disable_percpu_irq(ipi_virq_base + i), on
\* the calling CPU.
riscv_ipi_disable_line(c) ==
  /\ pc[c] = "disable" /\ hpc[c] = "none"
  /\ irq_enabled' = [irq_enabled EXCEPT
                       ![c] = @ \ {ipi_virq_base + en_i[c]}]
  /\ enable_next(c, "idle")
  /\ UNCHANGED <<reg_warn, enableframe>>

\* The position of riscv_ipi_set_virq_range at the head of the iteration i of
\* its loop over n lines: the request of the handler for a line below
\* inband_nr_ipi, the descriptor for another, the call of riscv_ipi_enable
\* after the last.
reg_loop(i, n) ==
  LET inband_nr_ipi == IF irqs_pipelined THEN 1 ELSE n
  IN IF i >= n THEN "reg_enable"
     ELSE IF i < inband_nr_ipi THEN "reg_request"
     ELSE "reg_desc"

\* riscv_ipi_set_virq_range without its first test, "if (WARN_ON(ipi_virq_base))
\* return;": every call registers afresh.
riscv_ipi_set_virq_range_again(virq, nr, use_for_rfence) ==
  LET n == MinInt(nr, IPI_MAX)
  IN /\ reg_warn' = reg_warn \cup
                      (IF nr < IPI_MAX THEN {"nr < IPI_MAX"} ELSE {})
     /\ nr_ipi' = n
     /\ ipi_virq_base' = virq
     /\ reg_i' = 0
     /\ reg_rfence' = use_for_rfence
     /\ pc' = [pc EXCEPT ![BootCpu] = reg_loop(0, n)]

\* riscv_ipi_set_virq_range(), up to the head of its loop: the test of
\* ipi_virq_base, the warning for a short range, and the writes of nr_ipi and
\* ipi_virq_base.  nr_ipi is read only where ipi_virq_base was found set.
riscv_ipi_set_virq_range(virq, nr, use_for_rfence) ==
  IF ipi_virq_base # 0
  THEN /\ reg_warn' = reg_warn \cup {"ipi_virq_base"}
       /\ UNCHANGED <<ipi_virq_base, nr_ipi, reg_i, reg_rfence, pc>>
  ELSE LET n == MinInt(nr, IPI_MAX)
       IN /\ reg_warn' = reg_warn \cup
                           (IF nr < IPI_MAX THEN {"nr < IPI_MAX"} ELSE {})
          /\ nr_ipi' = n
          /\ ipi_virq_base' = virq
          /\ reg_i' = 0
          /\ reg_rfence' = use_for_rfence
          /\ pc' = [pc EXCEPT ![BootCpu] = reg_loop(0, n)]

\* A call of the registration entry point by the thread of the boot CPU.
Register(virq, nr, use_for_rfence) ==
  /\ pc[BootCpu] = "idle" /\ hpc[BootCpu] = "none"
  /\ riscv_ipi_set_virq_range(virq, nr, use_for_rfence)
  /\ reg_calls' = reg_calls + 1
  /\ reg_nr' = nr
  /\ UNCHANGED <<ipi_desc, irq_requested, irq_hidden, irq_enabled, en_i,
                 riscv_ipi_for_rfence, archvars, pipeline_debug, smpvars,
                 hpc, ipinr, s_op, s_mask, s_todo, s_ret, timeout, obsvars>>

\* What the steps of the loop and the tail of riscv_ipi_set_virq_range leave
\* alone, besides the registration state.
regframe == <<reg_calls, reg_nr, en_i, archvars, pipeline_debug, smpvars,
              hpc, ipinr, s_op, s_mask, s_todo, s_ret, timeout, obsvars>>

\* riscv_ipi_set_virq_range, in its loop: err = request_percpu_irq(
\* ipi_virq_base + i, handle_IPI, "IPI", &ipi_dummy_dev); WARN_ON(err);
\* The call may sleep; `ok` says whether it installed the handler (err = 0)
\* or failed.
riscv_ipi_set_virq_range_request(ok) ==
  /\ pc[BootCpu] = "reg_request" /\ hpc[BootCpu] = "none"
  /\ IF ok
     THEN /\ irq_requested' = irq_requested \cup {ipi_virq_base + reg_i}
          /\ UNCHANGED reg_warn
     ELSE /\ reg_warn' = reg_warn \cup {"err"}
          /\ UNCHANGED irq_requested
  /\ pc' = [pc EXCEPT ![BootCpu] = "reg_desc"]
  /\ UNCHANGED <<ipi_virq_base, nr_ipi, ipi_desc, irq_hidden, irq_enabled,
                 riscv_ipi_for_rfence, reg_i, reg_rfence, regframe>>

\* riscv_ipi_set_virq_range, in its loop:
\* ipi_desc[i] = irq_to_desc(ipi_virq_base + i);
riscv_ipi_set_virq_range_desc ==
  /\ pc[BootCpu] = "reg_desc" /\ hpc[BootCpu] = "none"
  /\ ipi_desc' = [ipi_desc EXCEPT ![reg_i] = ipi_virq_base + reg_i]
  /\ pc' = [pc EXCEPT ![BootCpu] = "reg_hidden"]
  /\ UNCHANGED <<ipi_virq_base, nr_ipi, irq_requested, irq_hidden,
                 irq_enabled, riscv_ipi_for_rfence, reg_warn, reg_i,
                 reg_rfence, regframe>>

\* riscv_ipi_set_virq_range, in its loop:
\* irq_set_status_flags(ipi_virq_base + i, IRQ_HIDDEN); i++.
riscv_ipi_set_virq_range_hidden ==
  /\ pc[BootCpu] = "reg_hidden" /\ hpc[BootCpu] = "none"
  /\ irq_hidden' = irq_hidden \cup {ipi_virq_base + reg_i}
  /\ reg_i' = reg_i + 1
  /\ pc' = [pc EXCEPT ![BootCpu] = reg_loop(reg_i + 1, nr_ipi)]
  /\ UNCHANGED <<ipi_virq_base, nr_ipi, ipi_desc, irq_requested,
                 irq_enabled, riscv_ipi_for_rfence, reg_warn, reg_rfence,
                 regframe>>

\* riscv_ipi_set_virq_range, after its loop: the call riscv_ipi_enable();
riscv_ipi_set_virq_range_enable ==
  /\ pc[BootCpu] = "reg_enable" /\ hpc[BootCpu] = "none"
  /\ riscv_ipi_enable(BootCpu, "reg_enabling", "reg_rfence")
  /\ UNCHANGED <<irq_enabled, enableframe>>

\* riscv_ipi_set_virq_range, its last statement: the static key
\* riscv_ipi_for_rfence is enabled or disabled as use_for_rfence says; the
\* locals die with the return.
riscv_ipi_set_virq_range_rfence ==
  /\ pc[BootCpu] = "reg_rfence" /\ hpc[BootCpu] = "none"
  /\ riscv_ipi_for_rfence' = reg_rfence
  /\ reg_i' = 0
  /\ reg_rfence' = FALSE
  /\ pc' = [pc EXCEPT ![BootCpu] = "idle"]
  /\ UNCHANGED <<ipi_virq_base, nr_ipi, ipi_desc, irq_requested, irq_hidden,
                 irq_enabled, reg_warn, regframe>>

\* Whether request_percpu_irq() installs the handler: it does, or it fails.
RequestOutcomes == BOOLEAN

\* The steps of a call of riscv_ipi_set_virq_range in progress, with either
\* outcome of request_percpu_irq.
RegisterStep ==
  \/ \E ok \in RequestOutcomes : riscv_ipi_set_virq_range_request(ok)
  \/ riscv_ipi_set_virq_range_desc
  \/ riscv_ipi_set_virq_range_hidden
  \/ riscv_ipi_set_virq_range_enable
  \/ riscv_ipi_enable_line(BootCpu)
  \/ riscv_ipi_set_virq_range_rfence

\* The thread of the boot CPU is inside riscv_ipi_set_virq_range.
InRegistration ==
  pc[BootCpu] \in {"reg_request", "reg_desc", "reg_hidden", "reg_enable",
                   "reg_enabling", "reg_rfence"}

\* The lines base + 0 .. base + nr_ipi - 1 of the registered range.
IpiLines == {ipi_virq_base + i : i \in 0 .. (nr_ipi - 1)}

\* The call the interrupt controller driver makes when it probes: once, while
\* no range is registered.
Boot(virq, nr, use_for_rfence) ==
  /\ ipi_virq_base = 0
  /\ Register(virq, nr, use_for_rfence)

\* A later call of the registration entry point, a range being registered.
Reregister(virq, nr, use_for_rfence) ==
  /\ ipi_virq_base # 0
  /\ reg_calls < MaxRegs
  /\ Register(virq, nr, use_for_rfence)

(* ------------------------------ sending -------------------------------- *)

\* The thread of CPU c is running: the CPU was booted and is not inside
\* handle_IPI.
Running(c) == pc[c] # "off" /\ hpc[c] = "none"

riscv_ipi_have_virq_range == ipi_virq_base # 0

num_online_cpus == Cardinality(cpu_online_mask)

\* A call of a send or stop entry point by the idle thread of CPU s.  IPIs
\* are sent only once riscv_ipi_have_virq_range() is true, which it is from
\* the write of ipi_virq_base on, before ipi_desc is filled.
Call(s) ==
  /\ Running(s) /\ pc[s] = "idle"
  /\ riscv_ipi_have_virq_range
  /\ ncalls < MaxCalls
  /\ ncalls' = ncalls + 1

\* set_bit(op, &per_cpu(ipi_messages, cpu))
set_bit(op, cpu) ==
  /\ ipi_messages' = [ipi_messages EXCEPT ![cpu] = @ \cup {op}]
  /\ nset' = [nset EXCEPT ![cpu][op] = @ + 1]
  /\ coalesced' = [coalesced EXCEPT ![cpu][op] =
                     IF op \in ipi_messages[cpu] THEN @ + 1 ELSE @]

\* __ipi_send_mask(desc, mask) of the generic IRQ layer: raises the line of
\* the descriptor on every CPU of the mask; the shared in-band line becomes
\* pending where handle_IPI is its handler.  A NULL descriptor is
\* dereferenced.
__ipi_send_mask(desc, mask) ==
  IF desc = NoDesc
  THEN /\ oops' = TRUE
       /\ UNCHANGED <<ipi_raised, ipi_pending>>
  ELSE /\ ipi_raised' = [c \in CPUs |->
                           IF c \in mask
                           THEN [ipi_raised[c] EXCEPT ![desc] = @ + 1]
                           ELSE ipi_raised[c]]
       /\ ipi_pending' = [c \in CPUs |->
                            IF c \in mask /\ desc \in irq_requested
                            THEN TRUE ELSE ipi_pending[c]]
       /\ UNCHANGED oops

__send_ipi_mask(mask, op) == __ipi_send_mask(ipi_desc[op], mask)

__send_ipi_single(cpu, op) == __ipi_send_mask(ipi_desc[op], {cpu})

\* The shared-line raises a send of reason op makes, per target.
RaisedFor(mask, op) ==
  raised_for' = [c \in CPUs |->
                   IF c \in mask /\ ipi_desc[0] # NoDesc
                   THEN [raised_for[c] EXCEPT ![op] = @ + 1]
                   ELSE raised_for[c]]

\* send_ipi_single(cpu, op), up to the barrier: set_bit(op, ...); wmb();
send_ipi_single(s, cpu, op) ==
  /\ set_bit(op, cpu)
  /\ pc' = [pc EXCEPT ![s] = "single_raise"]
  /\ s_op' = [s_op EXCEPT ![s] = op]
  /\ s_mask' = [s_mask EXCEPT ![s] = {cpu}]
  /\ s_ret' = [s_ret EXCEPT ![s] = "idle"]
  /\ UNCHANGED <<archvars, regvars, pipeline_debug, cpu_online_mask, ipi_counts,
                 ipi_pending, waiting_for_crash_ipi, cpus_stopped, hpc, ipinr,
                 s_todo, timeout, ipi_raised, oob_calls, raised_for, last_ipi,
                 handler_runs, ndispatch, polls, warned, crash_calls,
                 crash_broadcasts, crash_targets, oops>>

\* send_ipi_single, after the barrier: __send_ipi_single(cpu, 0); the locals
\* die with the return.
send_ipi_single_raise(s) ==
  /\ Running(s) /\ pc[s] = "single_raise"
  /\ __send_ipi_single(Min(s_mask[s]), 0)
  /\ RaisedFor(s_mask[s], s_op[s])
  /\ pc' = [pc EXCEPT ![s] = s_ret[s]]
  /\ s_op' = [s_op EXCEPT ![s] = 0]
  /\ s_mask' = [s_mask EXCEPT ![s] = {}]
  /\ s_ret' = [s_ret EXCEPT ![s] = "idle"]
  /\ UNCHANGED <<archvars,
                 regvars, pipeline_debug, cpu_online_mask, ipi_messages,
                 ipi_counts, waiting_for_crash_ipi, cpus_stopped, hpc, ipinr,
                 s_todo, timeout, ncalls, oob_calls, nset, coalesced, last_ipi,
                 handler_runs, ndispatch, polls, warned, crash_calls,
                 crash_broadcasts, crash_targets>>

\* Entry into send_ipi_mask(mask, op); the thread goes to `ret` afterwards.
send_ipi_mask(s, mask, op, ret) ==
  /\ pc' = [pc EXCEPT ![s] = IF mask = {} THEN "mask_raise" ELSE "mask_set"]
  /\ s_op' = [s_op EXCEPT ![s] = op]
  /\ s_mask' = [s_mask EXCEPT ![s] = mask]
  /\ s_todo' = [s_todo EXCEPT ![s] = mask]
  /\ s_ret' = [s_ret EXCEPT ![s] = ret]

\* send_ipi_mask with the raise moved into the loop body: the line is raised
\* once the first target's bit is set, before the bits of the other targets.
send_ipi_mask_set_early(s) ==
  /\ Running(s) /\ pc[s] = "mask_set"
  /\ LET cpu == Min(s_todo[s])
     IN /\ set_bit(s_op[s], cpu)
        /\ s_todo' = [s_todo EXCEPT ![s] = @ \ {cpu}]
        /\ pc' = [pc EXCEPT ![s] = "mask_raise"]
  /\ UNCHANGED <<archvars, regvars, pipeline_debug, cpu_online_mask, ipi_counts,
                 ipi_pending, waiting_for_crash_ipi, cpus_stopped, hpc, ipinr,
                 s_op, s_mask, s_ret, timeout, ncalls, ipi_raised, oob_calls,
                 raised_for, last_ipi, handler_runs, ndispatch, polls, warned,
                 crash_calls, crash_broadcasts, crash_targets, oops>>

\* One iteration of for_each_cpu(cpu, mask) set_bit(op, ...);
send_ipi_mask_set(s) ==
  /\ Running(s) /\ pc[s] = "mask_set"
  /\ LET cpu == Min(s_todo[s])
     IN /\ set_bit(s_op[s], cpu)
        /\ s_todo' = [s_todo EXCEPT ![s] = @ \ {cpu}]
        /\ pc' = [pc EXCEPT ![s] =
                    IF s_todo[s] = {cpu} THEN "mask_raise" ELSE "mask_set"]
  /\ UNCHANGED <<archvars, regvars, pipeline_debug, cpu_online_mask, ipi_counts,
                 ipi_pending, waiting_for_crash_ipi, cpus_stopped, hpc, ipinr,
                 s_op, s_mask, s_ret, timeout, ncalls, ipi_raised, oob_calls,
                 raised_for, last_ipi, handler_runs, ndispatch, polls, warned,
                 crash_calls, crash_broadcasts, crash_targets, oops>>

\* send_ipi_mask, after the barrier: __send_ipi_mask(mask, 0); the locals die
\* with the return.
send_ipi_mask_raise(s) ==
  /\ Running(s) /\ pc[s] = "mask_raise"
  /\ __send_ipi_mask(s_mask[s], 0)
  /\ RaisedFor(s_mask[s], s_op[s])
  /\ pc' = [pc EXCEPT ![s] = s_ret[s]]
  /\ s_op' = [s_op EXCEPT ![s] = 0]
  /\ s_mask' = [s_mask EXCEPT ![s] = {}]
  /\ s_ret' = [s_ret EXCEPT ![s] = "idle"]
  /\ UNCHANGED <<archvars,
                 regvars, pipeline_debug, cpu_online_mask, ipi_messages,
                 ipi_counts, waiting_for_crash_ipi, cpus_stopped, hpc, ipinr,
                 s_todo, timeout, ncalls, oob_calls, nset, coalesced, last_ipi,
                 handler_runs, ndispatch, polls, warned, crash_calls,
                 crash_broadcasts, crash_targets>>

\* What an entry point that only calls send_ipi_mask leaves alone.
MaskCallFrame ==
  UNCHANGED <<archvars, regvars, pipeline_debug, smpvars, hpc, ipinr, timeout,
              ipi_raised, oob_calls, nset, coalesced, raised_for, last_ipi,
              handler_runs, ndispatch, polls, warned, crash_calls,
              crash_broadcasts, crash_targets, oops>>

arch_irq_work_raise(s) ==
  Call(s) /\ send_ipi_single(s, s, IPI_IRQ_WORK)

arch_send_call_function_ipi_mask(s, mask) ==
  Call(s) /\ send_ipi_mask(s, mask, IPI_CALL_FUNC, "idle") /\ MaskCallFrame

arch_send_call_function_single_ipi(s, cpu) ==
  Call(s) /\ send_ipi_single(s, cpu, IPI_CALL_FUNC)

tick_broadcast(s, mask) ==
  Call(s) /\ send_ipi_mask(s, mask, IPI_TIMER, "idle") /\ MaskCallFrame

arch_smp_send_reschedule(s, cpu) ==
  Call(s) /\ send_ipi_single(s, cpu, IPI_RESCHEDULE)

\* irq_send_oob_ipi ending in "__send_ipi_mask(cpumask, 0)", the last line of
\* send_ipi_mask: the shared line is raised in place of the dedicated one.
irq_send_oob_ipi_shared(s, irq, cpumask) ==
  LET op == irq - ipi_virq_base
  IN /\ Call(s)
     /\ oob_calls' = [c \in CPUs |->
                        IF c \in cpumask
                        THEN [oob_calls[c] EXCEPT ![irq] = @ + 1]
                        ELSE oob_calls[c]]
     /\ IF pipeline_debug /\
           (op < OOB_IPI_OFFSET \/ op >= OOB_IPI_OFFSET + OOB_NR_IPI)
        THEN /\ warned' = [warned EXCEPT ![s] = @ \cup {"irq_send_oob_ipi"}]
             /\ UNCHANGED <<ipi_raised, ipi_pending, oops>>
        ELSE /\ __send_ipi_mask(cpumask, 0)
             /\ UNCHANGED warned
     /\ UNCHANGED <<archvars,
                    regvars, pipeline_debug, cpu_online_mask, ipi_messages,
                    ipi_counts, waiting_for_crash_ipi, cpus_stopped, ctlvars,
                    nset, coalesced, raised_for, last_ipi, handler_runs,
                    ndispatch, polls, crash_calls, crash_broadcasts,
                    crash_targets>>

\* irq_send_oob_ipi(irq, cpumask)
irq_send_oob_ipi(s, irq, cpumask) ==
  LET op == irq - ipi_virq_base
  IN /\ Call(s)
     /\ oob_calls' = [c \in CPUs |->
                        IF c \in cpumask
                        THEN [oob_calls[c] EXCEPT ![irq] = @ + 1]
                        ELSE oob_calls[c]]
     /\ IF pipeline_debug /\
           (op < OOB_IPI_OFFSET \/ op >= OOB_IPI_OFFSET + OOB_NR_IPI)
        THEN /\ warned' = [warned EXCEPT ![s] = @ \cup {"irq_send_oob_ipi"}]
             /\ UNCHANGED <<ipi_raised, ipi_pending, oops>>
        ELSE /\ __send_ipi_mask(cpumask, op)
             /\ UNCHANGED warned
     /\ UNCHANGED <<archvars,
                    regvars, pipeline_debug, cpu_online_mask, ipi_messages,
                    ipi_counts, waiting_for_crash_ipi, cpus_stopped, ctlvars,
                    nset, coalesced, raised_for, last_ipi, handler_runs,
                    ndispatch, polls, crash_calls, crash_broadcasts,
                    crash_targets>>

(* ----------------------------- receiving ------------------------------- *)

\* ffs(): the 1-based position of the lowest set bit, 0 for an empty mask.
ffs(bits) == IF bits = {} THEN 0 ELSE Min(bits) + 1

\* The switch of __handle_IPI on ipi = irq - ipi_virq_base.
ipi_switch(ipi) ==
  CASE ipi = IPI_RESCHEDULE -> "scheduler_ipi"
    [] ipi = IPI_CALL_FUNC -> "generic_smp_call_function_interrupt"
    [] ipi = IPI_CPU_STOP -> "ipi_stop"
    [] ipi = IPI_CPU_CRASH_STOP -> "ipi_cpu_crash_stop"
    [] ipi = IPI_IRQ_WORK -> "irq_work_run"
    [] ipi = IPI_TIMER -> "tick_receive_broadcast"
    [] OTHER -> "unhandled"

\* ipi_stop(): set_cpu_online(cpu, false), then wait_for_interrupt() forever.
ipi_stop(c) ==
  /\ cpu_online_mask' = cpu_online_mask \ {c}
  /\ hpc' = [hpc EXCEPT ![c] = "spin"]
  /\ UNCHANGED <<waiting_for_crash_ipi, hard_ie, stall>>

\* local_irq_disable_full(), linux/irqflags.h of the pipelined kernel: the
\* hardware enable bit is cleared and the in-band stage is stalled.
local_irq_disable_full(c) ==
  /\ hard_ie' = [hard_ie EXCEPT ![c] = FALSE]
  /\ stall' = [stall EXCEPT ![c] = 1]

\* ipi_cpu_crash_stop(): atomic_dec(&waiting_for_crash_ipi);
\* local_irq_disable_full(); then wait_for_interrupt() forever.
ipi_cpu_crash_stop(c) ==
  /\ waiting_for_crash_ipi' = waiting_for_crash_ipi - 1
  /\ local_irq_disable_full(c)
  /\ hpc' = [hpc EXCEPT ![c] = "spin"]
  /\ UNCHANGED cpu_online_mask

\* __handle_IPI whose default case takes the CPU offline and parks it, as
\* IPI_CPU_STOP does, after warning.
__handle_IPI_default_stop(c, irq) ==
  LET ipi == irq - ipi_virq_base
      h == ipi_switch(ipi)
  IN /\ last_ipi' = [last_ipi EXCEPT ![c] = <<irq, h>>]
     /\ handler_runs' = [handler_runs EXCEPT ![c][h] = @ + 1]
     /\ CASE h \in {"ipi_stop", "unhandled"} -> ipi_stop(c)
          [] h = "ipi_cpu_crash_stop" -> ipi_cpu_crash_stop(c)
          [] OTHER -> /\ hpc' = [hpc EXCEPT ![c] = "loop"]
                      /\ UNCHANGED <<cpu_online_mask, waiting_for_crash_ipi,
                                     hard_ie, stall>>

\* __handle_IPI(irq, data) on CPU c.
__handle_IPI(c, irq) ==
  LET ipi == irq - ipi_virq_base
      h == ipi_switch(ipi)
  IN /\ last_ipi' = [last_ipi EXCEPT ![c] = <<irq, h>>]
     /\ handler_runs' = [handler_runs EXCEPT ![c][h] = @ + 1]
     /\ CASE h = "ipi_stop" -> ipi_stop(c)
          [] h = "ipi_cpu_crash_stop" -> ipi_cpu_crash_stop(c)
          [] OTHER -> /\ hpc' = [hpc EXCEPT ![c] = "loop"]
                      /\ UNCHANGED <<cpu_online_mask, waiting_for_crash_ipi,
                                     hard_ie, stall>>

\* The shared line is taken by CPU c: the flow handler counts the interrupt
\* in the line's descriptor and the handler handle_IPI starts.
irq_entry(c) ==
  /\ Running(c) /\ ipi_pending[c]
  /\ ipi_pending' = [ipi_pending EXCEPT ![c] = FALSE]
  /\ hpc' = [hpc EXCEPT ![c] = "loop"]
  /\ kstat_irqs' = [kstat_irqs EXCEPT ![c][ipi_virq_base] = @ + 1]
  /\ UNCHANGED <<statframe, seq_out, stat_i, stat_cpu, regvars,
                 pipeline_debug, cpu_online_mask, ipi_messages,
                 ipi_counts, waiting_for_crash_ipi, cpus_stopped, pc, ipinr,
                 s_op, s_mask, s_todo, s_ret, timeout, obsvars>>

\* handle_IPI: while (*pmsg) { ipinr = ffs(*pmsg) - 1; ... } return;
handle_IPI_loop(c) ==
  /\ hpc[c] = "loop"
  /\ IF ipi_messages[c] # {}
     THEN /\ ipinr' = [ipinr EXCEPT ![c] = ffs(ipi_messages[c]) - 1]
          /\ hpc' = [hpc EXCEPT ![c] = "clear"]
     ELSE /\ hpc' = [hpc EXCEPT ![c] = "none"]
          /\ ipinr' = [ipinr EXCEPT ![c] = 0]
  /\ UNCHANGED <<archvars,
                 regvars, pipeline_debug, smpvars, pc, s_op, s_mask, s_todo,
                 s_ret, timeout, obsvars>>

\* handle_IPI: clear_bit(ipinr, pmsg);
handle_IPI_clear(c) ==
  /\ hpc[c] = "clear"
  /\ ipi_messages' = [ipi_messages EXCEPT ![c] = @ \ {ipinr[c]}]
  /\ hpc' = [hpc EXCEPT ![c] = "count"]
  /\ UNCHANGED <<archvars, regvars, pipeline_debug, cpu_online_mask, ipi_counts,
                 ipi_pending, waiting_for_crash_ipi, cpus_stopped, pc, ipinr,
                 s_op, s_mask, s_todo, s_ret, timeout, obsvars>>

\* handle_IPI: __this_cpu_inc(ipi_counts[ipinr]);
handle_IPI_count(c) ==
  /\ hpc[c] = "count"
  /\ ipi_counts' = [ipi_counts EXCEPT ![c][ipinr[c]] = @ + 1]
  /\ hpc' = [hpc EXCEPT ![c] = "dispatch"]
  /\ UNCHANGED <<archvars,
                 regvars, pipeline_debug, cpu_online_mask, ipi_messages,
                 ipi_pending, waiting_for_crash_ipi, cpus_stopped, pc, ipinr,
                 s_op, s_mask, s_todo, s_ret, timeout, obsvars>>

\* handle_IPI: __handle_IPI(ipinr, data);
handle_IPI_dispatch(c) ==
  /\ hpc[c] = "dispatch"
  /\ __handle_IPI(c, ipinr[c])
  /\ ndispatch' = [ndispatch EXCEPT ![c][ipinr[c]] = @ + 1]
  /\ UNCHANGED <<saved, last_restore, conv, rcuvars, hartvars, statvars,
                 trapvars, regvars, pipeline_debug, ipi_messages, ipi_counts,
                 ipi_pending, cpus_stopped, pc, ipinr, s_op, s_mask, s_todo,
                 s_ret, timeout, ncalls, ipi_raised, oob_calls, nset,
                 coalesced, raised_for, polls, warned, crash_calls,
                 crash_broadcasts, crash_targets, oops>>

(* ------------------------------ stop-all ------------------------------- *)

\* smp_send_stop(), up to the call of send_ipi_mask.  The local timeout, which
\* the code assigns after the send, is read by the wait loop only.
smp_send_stop(s) ==
  /\ Call(s)
  /\ timeout' = [timeout EXCEPT ![s] = USEC_PER_SEC]
  /\ polls' = [polls EXCEPT ![s] = 0]
  /\ warned' = [warned EXCEPT ![s] = @ \ {"smp_send_stop"}]
  /\ IF num_online_cpus > 1
     THEN send_ipi_mask(s, cpu_online_mask \ {s}, IPI_CPU_STOP, "stop_loop")
     ELSE /\ pc' = [pc EXCEPT ![s] = "stop_loop"]
          /\ UNCHANGED <<s_op, s_mask, s_todo, s_ret>>
  /\ UNCHANGED <<archvars,
                 regvars, pipeline_debug, smpvars, hpc, ipinr, ipi_raised,
                 oob_calls, nset, coalesced, raised_for, last_ipi,
                 handler_runs, ndispatch, crash_calls, crash_broadcasts,
                 crash_targets, oops>>

\* while (num_online_cpus() > 1 && timeout--) udelay(1);
smp_send_stop_loop(s) ==
  /\ Running(s) /\ pc[s] = "stop_loop"
  /\ IF num_online_cpus > 1
     THEN IF timeout[s] # 0
          THEN /\ timeout' = [timeout EXCEPT ![s] = @ - 1]
               /\ polls' = [polls EXCEPT ![s] = @ + 1]
               /\ UNCHANGED pc
          ELSE /\ timeout' = [timeout EXCEPT ![s] = ULONG_MAX]
               /\ pc' = [pc EXCEPT ![s] = "stop_check"]
               /\ UNCHANGED polls
     ELSE /\ pc' = [pc EXCEPT ![s] = "stop_check"]
          /\ UNCHANGED <<timeout, polls>>
  /\ UNCHANGED <<archvars,
                 regvars, pipeline_debug, smpvars, hpc, ipinr, s_op, s_mask,
                 s_todo, s_ret, ncalls, ipi_raised, oob_calls, nset, coalesced,
                 raised_for, last_ipi, handler_runs, ndispatch, warned,
                 crash_calls, crash_broadcasts, crash_targets, oops>>

\* if (num_online_cpus() > 1) pr_warn("SMP: failed to stop secondary CPUs");
smp_send_stop_check(s) ==
  /\ Running(s) /\ pc[s] = "stop_check"
  /\ warned' = [warned EXCEPT ![s] =
                  IF num_online_cpus > 1 THEN @ \cup {"smp_send_stop"} ELSE @]
  /\ pc' = [pc EXCEPT ![s] = "idle"]
  /\ UNCHANGED <<archvars,
                 regvars, pipeline_debug, smpvars, hpc, ipinr, s_op, s_mask,
                 s_todo, s_ret, timeout, ncalls, ipi_raised, oob_calls, nset,
                 coalesced, raised_for, last_ipi, handler_runs, ndispatch,
                 polls, crash_calls, crash_broadcasts, crash_targets, oops>>

(* --------------------------- crash-stop-all ---------------------------- *)

num_other_online_cpus(s) ==
  num_online_cpus - (IF s \in cpu_online_mask THEN 1 ELSE 0)

\* crash_smp_send_stop(): if (cpus_stopped) return;
crash_smp_send_stop(s) ==
  /\ Call(s)
  /\ crash_calls' = crash_calls + 1
  /\ pc' = [pc EXCEPT ![s] = IF cpus_stopped THEN "idle" ELSE "crash_set"]
  /\ warned' = [warned EXCEPT ![s] = @ \ {"crash_smp_send_stop"}]
  /\ UNCHANGED <<archvars,
                 regvars, pipeline_debug, smpvars, hpc, ipinr, s_op, s_mask,
                 s_todo, s_ret, timeout, ipi_raised, oob_calls, nset,
                 coalesced, raised_for, last_ipi, handler_runs, ndispatch,
                 polls, crash_broadcasts, crash_targets, oops>>

\* crash_smp_send_stop with "cpus_stopped = 1" moved below the early return.
crash_smp_send_stop_set_late(s) ==
  /\ Running(s) /\ pc[s] = "crash_set"
  /\ IF num_other_online_cpus(s) = 0
     THEN /\ pc' = [pc EXCEPT ![s] = "idle"]
          /\ UNCHANGED <<s_mask, cpus_stopped>>
     ELSE /\ pc' = [pc EXCEPT ![s] = "crash_seed"]
          /\ cpus_stopped' = TRUE
          /\ s_mask' = [s_mask EXCEPT ![s] = cpu_online_mask \ {s}]
  /\ UNCHANGED <<archvars,
                 regvars, pipeline_debug, cpu_online_mask, ipi_messages,
                 ipi_counts, ipi_pending, waiting_for_crash_ipi, hpc, ipinr,
                 s_op, s_todo, s_ret, timeout, obsvars>>

\* cpus_stopped = 1; if (num_other_online_cpus() == 0) return;
\* cpumask_copy(&mask, cpu_online_mask); cpumask_clear_cpu(cpu, &mask);
crash_smp_send_stop_set(s) ==
  /\ Running(s) /\ pc[s] = "crash_set"
  /\ cpus_stopped' = TRUE
  /\ IF num_other_online_cpus(s) = 0
     THEN /\ pc' = [pc EXCEPT ![s] = "idle"]
          /\ UNCHANGED s_mask
     ELSE /\ pc' = [pc EXCEPT ![s] = "crash_seed"]
          /\ s_mask' = [s_mask EXCEPT ![s] = cpu_online_mask \ {s}]
  /\ UNCHANGED <<archvars,
                 regvars, pipeline_debug, cpu_online_mask, ipi_messages,
                 ipi_counts, ipi_pending, waiting_for_crash_ipi, hpc, ipinr,
                 s_op, s_todo, s_ret, timeout, obsvars>>

\* atomic_set(&waiting_for_crash_ipi, num_other_online_cpus());
\* send_ipi_mask(&mask, IPI_CPU_CRASH_STOP); timeout = USEC_PER_SEC;
crash_smp_send_stop_seed(s) ==
  /\ Running(s) /\ pc[s] = "crash_seed"
  /\ waiting_for_crash_ipi' = num_other_online_cpus(s)
  /\ send_ipi_mask(s, s_mask[s], IPI_CPU_CRASH_STOP, "crash_loop")
  /\ timeout' = [timeout EXCEPT ![s] = USEC_PER_SEC]
  /\ polls' = [polls EXCEPT ![s] = 0]
  /\ crash_broadcasts' = crash_broadcasts + 1
  /\ crash_targets' = s_mask[s]
  /\ UNCHANGED <<archvars,
                 regvars, pipeline_debug, cpu_online_mask, ipi_messages,
                 ipi_counts, ipi_pending, cpus_stopped, hpc, ipinr, ncalls,
                 ipi_raised, oob_calls, nset, coalesced, raised_for, last_ipi,
                 handler_runs, ndispatch, warned, crash_calls, oops>>

\* while ((atomic_read(&waiting_for_crash_ipi) > 0) && timeout--) udelay(1);
crash_smp_send_stop_loop(s) ==
  /\ Running(s) /\ pc[s] = "crash_loop"
  /\ IF waiting_for_crash_ipi > 0
     THEN IF timeout[s] # 0
          THEN /\ timeout' = [timeout EXCEPT ![s] = @ - 1]
               /\ polls' = [polls EXCEPT ![s] = @ + 1]
               /\ UNCHANGED pc
          ELSE /\ timeout' = [timeout EXCEPT ![s] = ULONG_MAX]
               /\ pc' = [pc EXCEPT ![s] = "crash_check"]
               /\ UNCHANGED polls
     ELSE /\ pc' = [pc EXCEPT ![s] = "crash_check"]
          /\ UNCHANGED <<timeout, polls>>
  /\ UNCHANGED <<archvars,
                 regvars, pipeline_debug, smpvars, hpc, ipinr, s_op, s_mask,
                 s_todo, s_ret, ncalls, ipi_raised, oob_calls, nset, coalesced,
                 raised_for, last_ipi, handler_runs, ndispatch, warned,
                 crash_calls, crash_broadcasts, crash_targets, oops>>

\* if (atomic_read(&waiting_for_crash_ipi) > 0) pr_warn(...);
crash_smp_send_stop_check(s) ==
  /\ Running(s) /\ pc[s] = "crash_check"
  /\ warned' = [warned EXCEPT ![s] =
                  IF waiting_for_crash_ipi > 0
                  THEN @ \cup {"crash_smp_send_stop"} ELSE @]
  /\ pc' = [pc EXCEPT ![s] = "idle"]
  /\ UNCHANGED <<archvars,
                 regvars, pipeline_debug, smpvars, hpc, ipinr, s_op, s_mask,
                 s_todo, s_ret, timeout, ncalls, ipi_raised, oob_calls, nset,
                 coalesced, raised_for, last_ipi, handler_runs, ndispatch,
                 polls, crash_calls, crash_broadcasts, crash_targets, oops>>

smp_crash_stop_failed == waiting_for_crash_ipi > 0

(* ----------------------- the virtual interrupt flag -------------------- *)

\* !x of C, on integers.
LNot(x) == IF x = 0 THEN 1 ELSE 0

\* x << bit for x in {0, 1}, as a status word.
Shl(x, bit) == IF x = 0 THEN {} ELSE {bit}

\* native_irqs_disabled_flags(), asm/irqflags.h: the hardware enable bit of
\* the word is clear.
native_irqs_disabled_flags(flags) ==
  IF RISCV_STATUS_IE_BIT \in flags THEN 0 ELSE 1

\* hard_irqs_disabled_flags(), linux/irqstage.h: the same test.
hard_irqs_disabled_flags(flags) == native_irqs_disabled_flags(flags)

\* "return (!stalled) << RISCV_STATUS_IE_BIT;" with the negation left out.
arch_irqs_virtual_to_native_flags_direct(stalled) ==
  Shl(LNot(LNot(stalled)), RISCV_STATUS_IE_BIT)

arch_irqs_virtual_to_native_flags(stalled) ==
  Shl(LNot(stalled), RISCV_STATUS_IE_BIT)

\* BITS_PER_LONG of the builds of the port: rv32 and rv64.
LongWidths == {32, 64}

\* "x << bit" computed in int, x being 0 or 1, and returned as an unsigned
\* long of w bits.  A 1 shifted into the sign bit of int overflows; the
\* kernel's build wraps it to INT_MIN, and the conversion to unsigned long
\* extends the sign: every bit from 31 up to w - 1 is set.
IntShl(x, bit, w) ==
  IF x = 0 THEN {}
  ELSE IF bit >= 31 THEN bit .. (w - 1)
  ELSE {bit}

\* "return (!!hard_irqs_disabled_flags(flags)) << RISCV_STATIS_SS_BIT;" on a
\* build whose unsigned long has w bits.
arch_irqs_native_to_virtual_flags(flags, w) ==
  IntShl(LNot(LNot(hard_irqs_disabled_flags(flags))), RISCV_STATIS_SS_BIT, w)

arch_irqs_disabled_flags(flags) == native_irqs_disabled_flags(flags)

\* The generic in-band stall bit operations, kernel/irq/pipeline.c.
inband_irqs_disabled(c) == stall[c]
inband_irq_disable(c) == stall' = [stall EXCEPT ![c] = 1]
inband_irq_enable(c) == stall' = [stall EXCEPT ![c] = 0]
inband_irq_restore(c, x) == stall' = [stall EXCEPT ![c] = LNot(LNot(x))]

\* inband_irq_save(): stalls, its value is the stall bit it found.
inband_irq_save(c) == inband_irq_disable(c)

\* The caller keeps the word it was returned.
Hold(c, flags) ==
  saved' = [saved EXCEPT ![c] = Append(@, [flags |-> flags, was |-> stall[c]])]

arch_local_irq_save(c) ==
  /\ Len(saved[c]) < MaxDepth
  /\ inband_irq_save(c)
  /\ Hold(c, arch_irqs_virtual_to_native_flags(stall[c]))
  /\ UNCHANGED <<hard_ie, conv, last_restore, flagframe>>

arch_local_irq_enable(c) ==
  /\ inband_irq_enable(c)
  /\ UNCHANGED <<hard_ie, saved, conv, last_restore, flagframe>>

\* The non-pipelined arch_local_irq_disable(): it clears the enable bit of
\* the status CSR.
arch_local_irq_disable_native(c) ==
  /\ hard_ie' = [hard_ie EXCEPT ![c] = FALSE]
  /\ UNCHANGED <<stall, saved, conv, last_restore, flagframe>>

arch_local_irq_disable(c) ==
  /\ inband_irq_disable(c)
  /\ UNCHANGED <<hard_ie, saved, conv, last_restore, flagframe>>

arch_local_save_flags(c) ==
  /\ Len(saved[c]) < MaxDepth
  /\ Hold(c, arch_irqs_virtual_to_native_flags(inband_irqs_disabled(c)))
  /\ UNCHANGED <<stall, hard_ie, conv, last_restore, flagframe>>

\* The caller hands back the word it captured last.
arch_local_irq_restore(c) ==
  /\ saved[c] # <<>>
  /\ LET flags == saved[c][Len(saved[c])].flags
     IN inband_irq_restore(c, arch_irqs_disabled_flags(flags))
  /\ saved' = [saved EXCEPT ![c] = SubSeq(@, 1, Len(@) - 1)]
  /\ last_restore' = [last_restore EXCEPT
                        ![c] = <<Len(saved[c]), saved[c][Len(saved[c])].was>>]
  /\ UNCHANGED <<hard_ie, conv, flagframe>>

\* hard_local_irq_disable() and hard_local_irq_enable(), asm/irqflags.h: the
\* operations on the hardware enable bit.
hard_local_irq_disable(c) ==
  /\ hard_ie' = [hard_ie EXCEPT ![c] = FALSE]
  /\ UNCHANGED <<stall, saved, conv, last_restore, flagframe>>

hard_local_irq_enable(c) ==
  /\ hard_ie' = [hard_ie EXCEPT ![c] = TRUE]
  /\ UNCHANGED <<stall, saved, conv, last_restore, flagframe>>

\* One application of each conversion helper, on either build.
NativeToVirtual(flags) ==
  /\ \E w \in LongWidths :
       conv' = [fn |-> "native_to_virtual", flags |-> flags, stalled |-> 0,
                out |-> arch_irqs_native_to_virtual_flags(flags, w)]
  /\ UNCHANGED <<stall, hard_ie, saved, last_restore, flagframe>>

VirtualToNative(stalled) ==
  /\ conv' = [fn |-> "virtual_to_native", flags |-> {}, stalled |-> stalled,
              out |-> arch_irqs_virtual_to_native_flags(stalled)]
  /\ UNCHANGED <<stall, hard_ie, saved, last_restore, flagframe>>

(* --------------------------- the stage entry --------------------------- *)

\* IS_ENABLED(CONFIG_TINY_RCU): never with CONFIG_SMP.
CONFIG_TINY_RCU == FALSE

\* ct_irq_enter() and ct_irq_exit(), kernel/context_tracking.c, as the count
\* of starts not yet stopped.
ct_irq_enter(c) == ct_nesting' = [ct_nesting EXCEPT ![c] = @ + 1]
ct_irq_exit(c) == ct_nesting' = [ct_nesting EXCEPT ![c] = @ - 1]

\* pipeline_enter_rcu(): the value of state.exit_rcu it returns on CPU c.
pipeline_enter_rcu(c) == ~CONFIG_TINY_RCU /\ idle_task[c]

\* pipeline_exit_rcu() that stops the tracker whatever state.exit_rcu is.
pipeline_exit_rcu_always(c, state) == ct_irq_exit(c)

\* pipeline_exit_rcu(state) on CPU c.
pipeline_exit_rcu(c, state) ==
  IF state.exit_rcu THEN ct_irq_exit(c) ELSE UNCHANGED ct_nesting

\* arch_do_IRQ_pipelined() up to handle_irq_desc(): pipeline_enter_rcu() and
\* set_irq_regs(regs), regs being the per-CPU tick frame.  The interrupt is
\* taken by the task, or by a handler the CPU is running.
arch_do_IRQ_pipelined_enter(c) ==
  /\ Len(irq_frames[c]) < MaxNest
  /\ LET exit_rcu == pipeline_enter_rcu(c)
     IN /\ IF exit_rcu THEN ct_irq_enter(c) ELSE UNCHANGED ct_nesting
        /\ irq_frames' = [irq_frames EXCEPT ![c] =
             Append(@, [exit_rcu |-> exit_rcu, old_regs |-> irq_regs[c],
                        idle |-> idle_task[c],
                        starts |-> IF exit_rcu THEN 1 ELSE 0,
                        nesting |-> ct_nesting[c]])]
  /\ irq_regs' = [irq_regs EXCEPT ![c] = "tick_regs"]
  /\ UNCHANGED <<idle_task, irq_done, rcuframe>>

\* arch_do_IRQ_pipelined() from the return of handle_irq_desc():
\* set_irq_regs(old_regs) and pipeline_exit_rcu(state).
arch_do_IRQ_pipelined_return(c) ==
  /\ irq_frames[c] # <<>>
  /\ LET state == irq_frames[c][Len(irq_frames[c])]
     IN /\ irq_regs' = [irq_regs EXCEPT ![c] = state.old_regs]
        /\ pipeline_exit_rcu(c, state)
        /\ irq_done' = [irq_done EXCEPT ![c] =
             [depth |-> Len(irq_frames[c]),
              idle |-> state.idle,
              starts |-> state.starts,
              stops |-> ct_nesting[c] - ct_nesting'[c],
              regs_before |-> state.old_regs,
              nesting_before |-> state.nesting]]
  /\ irq_frames' = [irq_frames EXCEPT ![c] = SubSeq(@, 1, Len(@) - 1)]
  /\ UNCHANGED <<idle_task, rcuframe>>

\* The scheduler switches the CPU, outside any interrupt, to or from its idle
\* task.
context_switch(c) ==
  /\ irq_frames[c] = <<>>
  /\ idle_task' = [idle_task EXCEPT ![c] = ~@]
  /\ UNCHANGED <<irq_regs, ct_nesting, irq_frames, irq_done, rcuframe>>

(* --------------------------- the hart id table ------------------------- *)

\* smp_setup_processor_id(): the boot CPU is logical CPU 0.
smp_setup_processor_id(boot_cpu_hartid) ==
  /\ cpuid_to_hartid_map[0] = INVALID_HARTID
  /\ cpuid_to_hartid_map' = [cpuid_to_hartid_map EXCEPT ![0] = boot_cpu_hartid]
  /\ UNCHANGED <<lookup, hartframe>>

\* setup_smp(), kernel/smpboot.c: the next logical CPU is given a hart of the
\* device tree that no CPU has yet.
setup_smp(cpuid, hart) ==
  /\ cpuid_to_hartid_map[0] # INVALID_HARTID
  /\ cpuid_to_hartid_map[cpuid] = INVALID_HARTID
  /\ \A i \in CPUs : i < cpuid => cpuid_to_hartid_map[i] # INVALID_HARTID
  /\ \A i \in CPUs : cpuid_to_hartid_map[i] # hart
  /\ cpuid_to_hartid_map' = [cpuid_to_hartid_map EXCEPT ![cpuid] = hart]
  /\ UNCHANGED <<lookup, hartframe>>

\* for (i = from; i < NR_CPUS; i++) if (cpuid_to_hartid_map(i) == hartid)
\* return i; return -ENOENT;
RECURSIVE hartid_scan(_, _, _)
hartid_scan(table, hartid, i) ==
  IF i >= NR_CPUS THEN 0 - ENOENT
  ELSE IF table[i] = hartid THEN i
  ELSE hartid_scan(table, hartid, i + 1)

riscv_hartid_to_cpuid(hartid) == hartid_scan(cpuid_to_hartid_map, hartid, 0)

\* One call of riscv_hartid_to_cpuid, once the boot CPU is in the table.
Lookup(hartid) ==
  /\ cpuid_to_hartid_map[0] # INVALID_HARTID
  /\ lookup' = [done |-> TRUE, hartid |-> hartid,
                ret |-> riscv_hartid_to_cpuid(hartid),
                table |-> cpuid_to_hartid_map]
  /\ UNCHANGED <<cpuid_to_hartid_map, hartframe>>

(* ------------------------- the statistics report ----------------------- *)

\* irq_desc_kstat_cpu(desc, cpu), linux/irqdesc.h.
irq_desc_kstat_cpu(desc, cpu) == kstat_irqs[cpu][desc]

\* What the steps of show_ipi_stats leave alone, besides the report, its
\* locals, the position of the reading thread and oops.
showframe == <<statframe, kstat_irqs, regvars, pipeline_debug, smpvars, hpc,
               ipinr, s_op, s_mask, s_todo, s_ret, timeout, ncalls,
               ipi_raised, oob_calls, nset, coalesced, raised_for, last_ipi,
               handler_runs, ndispatch, polls, warned, crash_calls,
               crash_broadcasts, crash_targets>>

\* A row of the report with the value v added under the CPU cpu.
StatCell(row, cpu, v) ==
  [x \in (DOMAIN row) \cup {cpu} |-> IF x = cpu THEN v ELSE row[x]]

\* show_ipi_stats(), up to the first row: i = 0 and the label of row 0 is
\* printed.  The thread of CPU c reads the report, once the range is
\* registered, one reader at a time.
show_ipi_stats(c) ==
  /\ pc[c] = "idle" /\ hpc[c] = "none"
  /\ ipi_virq_base # 0
  /\ \A d \in CPUs : pc[d] \notin {"stats", "stats_read"}
  /\ seq_out' = [shown |-> FALSE, rows |-> [i \in {0} |-> <<>>],
                 counts |-> [i \in {0} |-> <<>>]]
  /\ stat_i' = 0
  /\ stat_cpu' = 0 - 1
  /\ pc' = [pc EXCEPT ![c] = "stats"]
  /\ UNCHANGED <<oops, showframe>>

\* show_ipi_stats, for_each_online_cpu(cpu): the next CPU set in
\* cpu_online_mask after the cursor is tested for; without one the row ends,
\* i++, and either the label of the next row is printed or the report is
\* complete.
show_ipi_stats_next(c) ==
  /\ pc[c] = "stats" /\ hpc[c] = "none"
  /\ LET rest == {d \in cpu_online_mask : d > stat_cpu}
     IN IF rest # {}
        THEN /\ stat_cpu' = Min(rest)
             /\ pc' = [pc EXCEPT ![c] = "stats_read"]
             /\ UNCHANGED <<seq_out, stat_i>>
        ELSE IF stat_i + 1 < IPI_MAX
        THEN /\ stat_i' = stat_i + 1
             /\ stat_cpu' = 0 - 1
             /\ seq_out' =
                  [seq_out EXCEPT
                     !.rows = [i \in 0 .. (stat_i + 1) |->
                                 IF i <= stat_i THEN @[i] ELSE <<>>],
                     !.counts = [i \in 0 .. (stat_i + 1) |->
                                   IF i <= stat_i THEN @[i] ELSE <<>>]]
             /\ UNCHANGED pc
        ELSE /\ seq_out' = [seq_out EXCEPT !.shown = TRUE]
             /\ stat_i' = 0
             /\ stat_cpu' = 0 - 1
             /\ pc' = [pc EXCEPT ![c] = "idle"]
  /\ UNCHANGED <<oops, showframe>>

\* show_ipi_stats, in the loop over the CPUs:
\* seq_printf(p, "%10u ", irq_desc_kstat_cpu(ipi_desc[i], cpu));
\* A reason without descriptor is a NULL dereference: the reading task dies
\* with the report unfinished.
show_ipi_stats_read(c) ==
  /\ pc[c] = "stats_read" /\ hpc[c] = "none"
  /\ IF ipi_desc[stat_i] = NoDesc
     THEN /\ oops' = TRUE
          /\ stat_i' = 0
          /\ stat_cpu' = 0 - 1
          /\ pc' = [pc EXCEPT ![c] = "idle"]
          /\ UNCHANGED seq_out
     ELSE /\ seq_out' =
               [seq_out EXCEPT
                  !.rows[stat_i] =
                     StatCell(@, stat_cpu,
                              irq_desc_kstat_cpu(ipi_desc[stat_i], stat_cpu)),
                  !.counts[stat_i] =
                     StatCell(@, stat_cpu, ipi_counts[stat_cpu][stat_i])]
          /\ pc' = [pc EXCEPT ![c] = "stats"]
          /\ UNCHANGED <<oops, stat_i, stat_cpu>>
  /\ UNCHANGED showframe

(* --------------------------- trap notification ------------------------- *)

\* oob_trap_notify(), kernel/dovetail.c: the companion core is told of the
\* trap; it may switch a task running out-of-band to the in-band stage, and
\* leaves an in-band task where it is.  `after` is the stage it leaves.
oob_trap_notify(c, after) ==
  /\ after \in (IF stage[c] = "oob" THEN {"oob", "inband"} ELSE {"inband"})
  /\ stage' = [stage EXCEPT ![c] = after]
  /\ notifies' = [notifies EXCEPT ![c] = @ + 1]

\* oob_trap_unwind(), kernel/dovetail.c, called n times.
oob_trap_unwind(c, n) == unwinds' = [unwinds EXCEPT ![c] = @ + n]

\* running_inband() once the notification has left the stage `after`.
running_inband(after) == after = "inband"

\* mark_cond_trap_entry that unwinds whatever running_inband() says.
mark_cond_trap_entry_unwind(c, after) ==
  /\ oob_trap_notify(c, after)
  /\ LET ret == running_inband(after)
     IN /\ oob_trap_unwind(c, 1)
        /\ trap_last' = [trap_last EXCEPT ![c] =
             [ret |-> ret, inband |-> after = "inband", unwinds |-> 1]]

\* The macro mark_cond_trap_entry() on CPU c: oob_trap_notify();
\* __ret = running_inband(); if (!__ret) oob_trap_unwind(); __ret.  The value
\* is kept in trap_last.
mark_cond_trap_entry(c, after) ==
  /\ oob_trap_notify(c, after)
  /\ LET ret == running_inband(after)
     IN /\ oob_trap_unwind(c, IF ~ret THEN 1 ELSE 0)
        /\ trap_last' = [trap_last EXCEPT ![c] =
             [ret |-> ret, inband |-> after = "inband",
              unwinds |-> IF ~ret THEN 1 ELSE 0]]

\* A trap handler of CPU c that enters with mark_cond_trap_entry() and
\* branches on its value: the trap is handled in-band after true, and left
\* alone after false.
mark_cond_trap_entry_call(c, after) ==
  /\ tpc[c] = "none" /\ notifies[c] < MaxTraps
  /\ mark_cond_trap_entry(c, after)
  /\ tpc' = [tpc EXCEPT ![c] = IF running_inband(after) THEN "handling"
                               ELSE "none"]
  /\ UNCHANGED <<dovetail_debug, blind_exits, trapframe>>

\* The macro mark_trap_entry() on CPU c: bool __ret = mark_cond_trap_entry();
\* BUG_ON(dovetail_debug() && !__ret);  The value is dropped: unless the BUG
\* fires the handler goes on to handle the trap and to mark_trap_exit.
mark_trap_entry(c, after) ==
  /\ tpc[c] = "none" /\ notifies[c] < MaxTraps
  /\ mark_cond_trap_entry(c, after)
  /\ tpc' = [tpc EXCEPT ![c] =
               IF running_inband(after) THEN "handling"
               ELSE IF dovetail_debug THEN "bug"
               ELSE "unwound"]
  /\ UNCHANGED <<dovetail_debug, blind_exits, trapframe>>

\* mark_trap_exit() on CPU c: oob_trap_unwind(), by the handler of a trap
\* that went on after the entry macro.
mark_trap_exit(c) ==
  /\ tpc[c] \in {"handling", "unwound"}
  /\ oob_trap_unwind(c, 1)
  /\ blind_exits' = [blind_exits EXCEPT
                       ![c] = IF tpc[c] = "unwound" THEN @ + 1 ELSE @]
  /\ tpc' = [tpc EXCEPT ![c] = "none"]
  /\ UNCHANGED <<dovetail_debug, stage, notifies, trap_last, trapframe>>

\* The task of CPU c moves to the other stage, outside any trap.
stage_switch(c) ==
  /\ tpc[c] = "none"
  /\ stage' = [stage EXCEPT ![c] = IF @ = "oob" THEN "inband" ELSE "oob"]
  /\ UNCHANGED <<dovetail_debug, tpc, notifies, unwinds, trap_last,
                 blind_exits, trapframe>>

(* --------------------------- specification ----------------------------- *)

\* Nonempty CPU masks a caller can pass.
Masks == (SUBSET CPUs) \ {{}}

\* Lines a caller names in irq_send_oob_ipi: the shared in-band line, the
\* first and the last line of the out-of-band window, and the line after it.
OobIrqs ==
  {ipi_virq_base + i :
     i \in {0, OOB_IPI_OFFSET, OOB_IPI_OFFSET + OOB_NR_IPI - 1,
            OOB_IPI_OFFSET + OOB_NR_IPI}}

Next ==
  \/ \E virq \in VirqChoices, nr \in NrChoices : Boot(virq, nr, FALSE)
  \/ RegisterStep
  \/ \E s \in CPUs : arch_irq_work_raise(s)
  \/ \E s \in CPUs, m \in Masks : arch_send_call_function_ipi_mask(s, m)
  \/ \E s \in CPUs, c \in CPUs : arch_send_call_function_single_ipi(s, c)
  \/ \E s \in CPUs, m \in Masks : tick_broadcast(s, m)
  \/ \E s \in CPUs, c \in CPUs : arch_smp_send_reschedule(s, c)
  \/ \E s \in CPUs, m \in Masks : \E irq \in OobIrqs :
       irq_send_oob_ipi(s, irq, m)
  \/ \E s \in CPUs : send_ipi_single_raise(s)
  \/ \E s \in CPUs : send_ipi_mask_set(s)
  \/ \E s \in CPUs : send_ipi_mask_raise(s)
  \/ \E c \in CPUs : irq_entry(c)
  \/ \E c \in CPUs : handle_IPI_loop(c)
  \/ \E c \in CPUs : handle_IPI_clear(c)
  \/ \E c \in CPUs : handle_IPI_count(c)
  \/ \E c \in CPUs : handle_IPI_dispatch(c)
  \/ \E s \in CPUs : smp_send_stop(s)
  \/ \E s \in CPUs : smp_send_stop_loop(s)
  \/ \E s \in CPUs : smp_send_stop_check(s)
  \/ \E s \in CPUs : crash_smp_send_stop(s)
  \/ \E s \in CPUs : crash_smp_send_stop_set(s)
  \/ \E s \in CPUs : crash_smp_send_stop_seed(s)
  \/ \E s \in CPUs : crash_smp_send_stop_loop(s)
  \/ \E s \in CPUs : crash_smp_send_stop_check(s)

\* The SMP code does not read dovetail_debug(): its behaviours are those of
\* the build without CONFIG_DEBUG_DOVETAIL.
InitSmp == Init /\ dovetail_debug = FALSE

Spec == InitSmp /\ [][Next]_vars

\* The boot-time registration, with the number of lines drawn from NS.
BootStep(NS) ==
  \/ \E virq \in VirqChoices, nr \in NS : Boot(virq, nr, FALSE)
  \/ RegisterStep

\* The boot-time registration of a full range at the lowest base.
BootLow ==
  \/ Boot(Min(VirqChoices), IPI_MAX, FALSE)
  \/ RegisterStep

\* The steps of handle_IPI on the shared line.
ReceiveStep ==
  \/ \E c \in CPUs : irq_entry(c)
  \/ \E c \in CPUs : handle_IPI_loop(c)
  \/ \E c \in CPUs : handle_IPI_clear(c)
  \/ \E c \in CPUs : handle_IPI_count(c)
  \/ \E c \in CPUs : handle_IPI_dispatch(c)

\* In-band traffic only: the multiplexer under the reschedule, call-function,
\* irq-work and timer-broadcast entry points.
NextMux ==
  \/ BootStep({IPI_MAX})
  \/ \E s \in CPUs : arch_irq_work_raise(s)
  \/ \E s \in CPUs, m \in Masks : arch_send_call_function_ipi_mask(s, m)
  \/ \E s \in CPUs, c \in CPUs : arch_send_call_function_single_ipi(s, c)
  \/ \E s \in CPUs, m \in Masks : tick_broadcast(s, m)
  \/ \E s \in CPUs, c \in CPUs : arch_smp_send_reschedule(s, c)
  \/ \E s \in CPUs : send_ipi_single_raise(s)
  \/ \E s \in CPUs : send_ipi_mask_set(s)
  \/ \E s \in CPUs : send_ipi_mask_raise(s)
  \/ ReceiveStep

\* The in-band multiplexer never reads irq_pipeline_debug().
InitMux == InitSmp /\ pipeline_debug = FALSE

\* Both CPUs are online and pipeline debugging is off.
InitArch == InitMux /\ cpu_online_mask = CPUs

SpecMux == InitMux /\ [][NextMux]_vars

\* The multiplexer on CPUs that keep running: a CPU takes the shared line when
\* it is pending (interrupts are enabled in the thread), and handle_IPI and
\* the sending thread run their next instruction.
Progress(c) ==
  /\ WF_vars(irq_entry(c))
  /\ WF_vars(\/ handle_IPI_loop(c)
             \/ handle_IPI_clear(c)
             \/ handle_IPI_count(c)
             \/ handle_IPI_dispatch(c))
  /\ WF_vars(\/ send_ipi_single_raise(c)
             \/ send_ipi_mask_set(c)
             \/ send_ipi_mask_raise(c))

\* The multiplexer under sends to one CPU (reschedule) and sends to every
\* CPU (timer broadcast).
NextDrain ==
  \/ BootLow
  \/ \E s \in CPUs : tick_broadcast(s, CPUs)
  \/ \E s \in CPUs, c \in CPUs : arch_smp_send_reschedule(s, c)
  \/ \E s \in CPUs : send_ipi_single_raise(s)
  \/ \E s \in CPUs : send_ipi_mask_set(s)
  \/ \E s \in CPUs : send_ipi_mask_raise(s)
  \/ ReceiveStep

SpecDrain == InitMux /\ [][NextDrain]_vars

\* The multiplexer under sends to one CPU from any CPU (reschedule) and sends
\* to every CPU from the boot CPU, which owns the broadcast clock device
\* (timer broadcast), the range registered at the lowest base.
NextFair ==
  \/ BootLow
  \/ tick_broadcast(BootCpu, CPUs)
  \/ \E s \in CPUs, c \in CPUs : arch_smp_send_reschedule(s, c)
  \/ \E s \in CPUs : send_ipi_single_raise(s)
  \/ \E s \in CPUs : send_ipi_mask_set(s)
  \/ \E s \in CPUs : send_ipi_mask_raise(s)
  \/ ReceiveStep

FairDrain ==
  /\ InitMux /\ [][NextFair]_vars
  /\ \A c \in CPUs : Progress(c)

\* The stop operations with the irq-work self-IPI as the only other traffic.
NextStop ==
  \/ BootStep({IPI_MAX})
  \/ \E s \in CPUs : arch_irq_work_raise(s)
  \/ \E s \in CPUs : send_ipi_single_raise(s)
  \/ \E s \in CPUs : send_ipi_mask_set(s)
  \/ \E s \in CPUs : send_ipi_mask_raise(s)
  \/ ReceiveStep
  \/ \E s \in CPUs : smp_send_stop(s)
  \/ \E s \in CPUs : smp_send_stop_loop(s)
  \/ \E s \in CPUs : smp_send_stop_check(s)
  \/ \E s \in CPUs : crash_smp_send_stop(s)
  \/ \E s \in CPUs : crash_smp_send_stop_set(s)
  \/ \E s \in CPUs : crash_smp_send_stop_seed(s)
  \/ \E s \in CPUs : crash_smp_send_stop_loop(s)
  \/ \E s \in CPUs : crash_smp_send_stop_check(s)

SpecStop == InitMux /\ [][NextStop]_vars

\* The stop operations on CPUs that keep running: besides the multiplexer,
\* the thread inside smp_send_stop or crash_smp_send_stop runs its next
\* instruction.
StopProgress(c) ==
  /\ WF_vars(smp_send_stop_loop(c))
  /\ WF_vars(smp_send_stop_check(c))
  /\ WF_vars(crash_smp_send_stop_set(c))
  /\ WF_vars(crash_smp_send_stop_seed(c))
  /\ WF_vars(crash_smp_send_stop_loop(c))
  /\ WF_vars(crash_smp_send_stop_check(c))

\* The stop operations alone, with the delivery of what they send.
NextWait ==
  \/ BootLow
  \/ \E s \in CPUs : send_ipi_mask_set(s)
  \/ \E s \in CPUs : send_ipi_mask_raise(s)
  \/ ReceiveStep
  \/ \E s \in CPUs : smp_send_stop(s)
  \/ \E s \in CPUs : smp_send_stop_loop(s)
  \/ \E s \in CPUs : smp_send_stop_check(s)
  \/ \E s \in CPUs : crash_smp_send_stop(s)
  \/ \E s \in CPUs : crash_smp_send_stop_set(s)
  \/ \E s \in CPUs : crash_smp_send_stop_seed(s)
  \/ \E s \in CPUs : crash_smp_send_stop_loop(s)
  \/ \E s \in CPUs : crash_smp_send_stop_check(s)

FairStop ==
  /\ InitMux /\ [][NextWait]_vars
  /\ \A c \in CPUs : Progress(c) /\ StopProgress(c)

\* Out-of-band sends beside in-band reschedule traffic.
NextOob ==
  \/ BootLow
  \/ \E s \in CPUs, m \in Masks : \E irq \in OobIrqs :
       irq_send_oob_ipi(s, irq, m)
  \/ \E s \in CPUs, c \in CPUs : arch_smp_send_reschedule(s, c)
  \/ \E s \in CPUs : send_ipi_single_raise(s)
  \/ ReceiveStep

SpecOob == InitSmp /\ [][NextOob]_vars

\* The registration at boot with a full or a short range, request_percpu_irq
\* succeeding or failing, later calls with any arguments, and riscv_ipi_enable
\* and riscv_ipi_disable on either CPU, beside irq-work self-sends of the
\* CPUs that do not register and their delivery.
NextReg ==
  \/ \E nr \in NrChoices : Boot(Min(VirqChoices), nr, FALSE)
  \/ \E virq \in VirqChoices, nr \in NrChoices, rf \in BOOLEAN :
       Reregister(virq, nr, rf)
  \/ \E ok \in RequestOutcomes : riscv_ipi_set_virq_range_request(ok)
  \/ riscv_ipi_set_virq_range_desc
  \/ riscv_ipi_set_virq_range_hidden
  \/ riscv_ipi_set_virq_range_enable
  \/ riscv_ipi_set_virq_range_rfence
  \/ \E c \in CPUs : riscv_ipi_enable_call(c)
  \/ \E c \in CPUs : riscv_ipi_enable_line(c)
  \/ \E c \in CPUs : riscv_ipi_disable_call(c)
  \/ \E c \in CPUs : riscv_ipi_disable_line(c)
  \/ \E s \in CPUs \ {BootCpu} : arch_irq_work_raise(s)
  \/ \E s \in CPUs : send_ipi_single_raise(s)
  \/ ReceiveStep

SpecReg == InitArch /\ [][NextReg]_vars

\* The virtual interrupt flag operations of every CPU, the hardware enable
\* bit changing beside them.
NextFlags ==
  \/ \E c \in CPUs : arch_local_save_flags(c)
  \/ \E c \in CPUs : arch_local_irq_save(c)
  \/ \E c \in CPUs : arch_local_irq_disable(c)
  \/ \E c \in CPUs : arch_local_irq_enable(c)
  \/ \E c \in CPUs : arch_local_irq_restore(c)
  \/ \E c \in CPUs : hard_local_irq_disable(c)
  \/ \E c \in CPUs : hard_local_irq_enable(c)

SpecFlags == InitArch /\ [][NextFlags]_vars

\* The conversion helpers applied to every status word and stall value,
\* beside the boot CPU saving and restoring its flags.
NextConv ==
  \/ \E flags \in StatusWords : NativeToVirtual(flags)
  \/ \E stalled \in 0 .. 1 : VirtualToNative(stalled)
  \/ arch_local_irq_save(BootCpu)
  \/ arch_local_irq_enable(BootCpu)
  \/ arch_local_irq_restore(BootCpu)

SpecConv == InitArch /\ [][NextConv]_vars

\* Interrupts taken by every CPU, nested, from its idle task or another.
NextRcu ==
  \/ \E c \in CPUs : arch_do_IRQ_pipelined_enter(c)
  \/ \E c \in CPUs : arch_do_IRQ_pipelined_return(c)
  \/ \E c \in CPUs : context_switch(c)

SpecRcu == InitArch /\ [][NextRcu]_vars

\* The table filled at boot, and looked up at any time for any hart id and
\* for the value of the unmapped slots.
NextHart ==
  \/ \E h \in Harts : smp_setup_processor_id(h)
  \/ \E c \in CPUs, h \in Harts : setup_smp(c, h)
  \/ \E h \in Harts \cup {INVALID_HARTID} : Lookup(h)

SpecHart == InitArch /\ [][NextHart]_vars

\* The boot-time registration at the lowest base, with the number of lines
\* drawn from NS.
BootOne(NS) ==
  \/ \E nr \in NS : Boot(Min(VirqChoices), nr, FALSE)
  \/ RegisterStep

\* The statistics report read by either CPU at any time, beside irq-work
\* self-sends and a crash-stop broadcast and their delivery.
NextStats ==
  \/ BootOne(NrChoices)
  \/ \E s \in CPUs : arch_irq_work_raise(s)
  \/ \E s \in CPUs : send_ipi_single_raise(s)
  \/ \E s \in CPUs : send_ipi_mask_set(s)
  \/ \E s \in CPUs : send_ipi_mask_raise(s)
  \/ ReceiveStep
  \/ \E s \in CPUs : crash_smp_send_stop(s)
  \/ \E s \in CPUs : crash_smp_send_stop_set(s)
  \/ \E s \in CPUs : crash_smp_send_stop_seed(s)
  \/ \E s \in CPUs : crash_smp_send_stop_loop(s)
  \/ \E s \in CPUs : crash_smp_send_stop_check(s)
  \/ \E c \in CPUs : show_ipi_stats(c)
  \/ \E c \in CPUs : show_ipi_stats_next(c)
  \/ \E c \in CPUs : show_ipi_stats_read(c)

SpecStats == InitArch /\ [][NextStats]_vars

\* Both CPUs are online, in a build with or without CONFIG_DEBUG_DOVETAIL.
InitTrap == Init /\ pipeline_debug = FALSE /\ cpu_online_mask = CPUs

\* Traps taken by every CPU on either stage, through either entry macro.
NextTrap ==
  \/ \E c \in CPUs, after \in {"inband", "oob"} :
       mark_cond_trap_entry_call(c, after)
  \/ \E c \in CPUs, after \in {"inband", "oob"} : mark_trap_entry(c, after)
  \/ \E c \in CPUs : mark_trap_exit(c)
  \/ \E c \in CPUs : stage_switch(c)

SpecTrap == InitTrap /\ [][NextTrap]_vars

(* ------------------------------- claims -------------------------------- *)

\* The handler the specification assigns to each logical reason.
HandlerOfReason(r) ==
  CASE r = IPI_RESCHEDULE -> "scheduler_ipi"
    [] r = IPI_CALL_FUNC -> "generic_smp_call_function_interrupt"
    [] r = IPI_CPU_STOP -> "ipi_stop"
    [] r = IPI_CPU_CRASH_STOP -> "ipi_cpu_crash_stop"
    [] r = IPI_IRQ_WORK -> "irq_work_run"
    [] r = IPI_TIMER -> "tick_receive_broadcast"

\* CPU c sits between the clear_bit of bit r and the end of its dispatch.
InFlight(c, r) == hpc[c] \in {"count", "dispatch"} /\ ipinr[c] = r

\* CPU c is inside the drain loop of handle_IPI.
InHandler(c) == hpc[c] \in {"loop", "clear", "count", "dispatch"}

\* CPU c spins forever in a stop handler.
Halted(c) == hpc[c] = "spin"

\* C1: whenever the drain loop of a CPU has dispatched bit r (registered,
\* nonzero base), the bit was counted in ipi_counts[r] and the handler that
\* ran is the handler of reason r, not the fallback or another handler.
C1_DispatchesOwnHandler ==
  \A c \in CPUs :
    last_ipi[c] # <<>> =>
      LET r == last_ipi[c][1]
      IN /\ ipi_virq_base # 0
         /\ ipi_counts[c][r] >= 1
         /\ last_ipi[c][2] = HandlerOfReason(r)

\* C3: when all N >= 2 sends of reason r to CPU c were coalesced into one
\* pending bit and the CPU has drained it, the delivery counter of r was
\* incremented exactly once and the handler of reason r ran exactly once.
C3_CoalescedDispatchedOnce ==
  \A c \in CPUs, r \in Reasons :
    ( /\ nset[c][r] >= 2
      /\ coalesced[c][r] = nset[c][r] - 1
      /\ r \notin ipi_messages[c]
      /\ ~InFlight(c, r)
      /\ ~(hpc[c] = "clear" /\ ipinr[c] = r) )
    => /\ ipi_counts[c][r] = 1
       /\ handler_runs[c][HandlerOfReason(r)] = 1

\* Sender s has set bit r of CPU c and has not raised the line yet.
RaiseStage(s, c, r) ==
  pc[s] \in {"single_raise", "mask_raise"} /\ s_op[s] = r /\ c \in s_mask[s]

\* Sender s is inside the set_bit loop of send_ipi_mask and is past CPU c.
SetStage(s, c, r) ==
  pc[s] = "mask_set" /\ s_op[s] = r /\ c \in (s_mask[s] \ s_todo[s])

\* 1 for TRUE, 0 for FALSE.
Num(b) == IF b THEN 1 ELSE 0

\* CPU c has left handle_IPI with its mask empty and has dispatched every
\* bit that was set for it, each 0 -> 1 change once.
Drained(c) ==
  /\ hpc[c] = "none" /\ ipi_messages[c] = {}
  /\ \A r \in Reasons :
       /\ ndispatch[c][r] = nset[c][r] - coalesced[c][r]
       /\ nset[c][r] >= 1 => ndispatch[c][r] >= 1

\* C2: no in-band IPI is lost under concurrent senders.  Every 0 -> 1 change
\* of bit r of CPU c is matched by one clear-and-dispatch of bit r on c or is
\* still pending; as long as every raise found the descriptor of the shared
\* line installed, a set bit is never left without a wake-up (the line is
\* pending, the drain loop runs, or a sender is about to raise the line);
\* handle_IPI returns only from a test that found the mask zero; and on a CPU
\* that takes the shared line and does not halt in a stop handler, pending
\* bits lead to the state where every send made so far has been dispatched.
C2_NoLostIPI ==
  /\ [](\A c \in CPUs, r \in Reasons :
         /\ nset[c][r] - coalesced[c][r] =
              ndispatch[c][r] + Num(r \in ipi_messages[c]) + Num(InFlight(c, r))
         /\ (r \in ipi_messages[c] /\ ~oops) =>
              \/ ipi_pending[c] \/ InHandler(c) \/ Halted(c)
              \/ \E s \in CPUs : RaiseStage(s, c, r) \/ SetStage(s, c, r))
  /\ [][\A c \in CPUs :
          (hpc[c] # "none" /\ hpc'[c] = "none") =>
            (ipi_messages[c] = {} /\ ipi_messages'[c] = {})]_vars
  /\ \A c \in CPUs :
       (ipi_messages[c] # {} /\ pc[c] # "off"
          /\ (ipi_pending[c] \/ InHandler(c)))
         ~> (Drained(c) \/ Halted(c))

\* C4: the pending bit is set before the shared line is raised.  A raise
\* never precedes its set_bit: the raises made for (c, r) and the sends about
\* to raise never outnumber the set_bit calls, and they equal them as long
\* as every raise found the descriptor of the shared line installed; once the
\* line was raised for (c, r) the bit is still set or was cleared by the
\* drain loop of c; send_ipi_mask raises only when all target bits are set.
C4_BitSetBeforeRaise ==
  \A c \in CPUs, r \in Reasons :
    /\ nset[c][r] >= raised_for[c][r]
                      + Cardinality({s \in CPUs : RaiseStage(s, c, r)})
                      + Cardinality({s \in CPUs : SetStage(s, c, r)})
    /\ ~oops =>
         nset[c][r] = raised_for[c][r]
                        + Cardinality({s \in CPUs : RaiseStage(s, c, r)})
                        + Cardinality({s \in CPUs : SetStage(s, c, r)})
    /\ raised_for[c][r] >= 1 =>
         (r \in ipi_messages[c] \/ InFlight(c, r) \/ ndispatch[c][r] >= 1)
    /\ \A s \in CPUs : pc[s] = "mask_raise" => s_todo[s] = {}

\* A send_ipi_mask to every CPU and a send_ipi_single have both raised the
\* line, and one of the bits is still pending.
C4_Witness ==
  /\ \A c \in CPUs : raised_for[c][IPI_TIMER] = 1
  /\ \E c \in CPUs :
       raised_for[c][IPI_RESCHEDULE] = 1 /\ IPI_RESCHEDULE \in ipi_messages[c]

\* The line irq lies inside the out-of-band window of the registered range.
InWindow(irq) ==
  LET op == irq - ipi_virq_base
  IN op >= OOB_IPI_OFFSET /\ op < OOB_IPI_OFFSET + OOB_NR_IPI

\* C5: out-of-band send and delivery are 1:1.  For a line inside the window
\* whose descriptor is installed, every call of irq_send_oob_ipi that targets
\* CPU c raises exactly that line for c once and nothing else raises it, so
\* K calls raise it K times; the line is never raised more often than it was
\* sent; and no call of irq_send_oob_ipi changes a pending-IPI mask or
\* ipi_counts.
C5_OobOneToOne ==
  /\ [](\A c \in CPUs, irq \in Irqs :
         (riscv_ipi_have_virq_range /\ InWindow(irq)) =>
           ipi_raised[c][irq] <= oob_calls[c][irq])
  /\ [][\A c \in CPUs, irq \in Irqs :
          (riscv_ipi_have_virq_range /\ InWindow(irq)
             /\ ipi_desc[irq - ipi_virq_base] # NoDesc) =>
            ipi_raised'[c][irq] - ipi_raised[c][irq] =
              oob_calls'[c][irq] - oob_calls[c][irq]]_vars
  /\ [][oob_calls' # oob_calls =>
          UNCHANGED <<ipi_messages, ipi_counts, nset>>]_vars

\* Two out-of-band sends of one line of the window to one CPU, both raised.
C5_Witness ==
  \E c \in CPUs, irq \in Irqs :
    /\ riscv_ipi_have_virq_range /\ InWindow(irq)
    /\ oob_calls[c][irq] >= 2 /\ ipi_raised[c][irq] >= 2

\* C6: an out-of-band send of a line outside the window is never delivered:
\* the call of irq_send_oob_ipi raises no line and dereferences no
\* descriptor, whether pipeline debugging is on or off.
C6_OutOfWindowDropped ==
  [][\A c \in CPUs, irq \in Irqs :
       (oob_calls'[c][irq] > oob_calls[c][irq] /\ ~InWindow(irq)) =>
         (ipi_raised' = ipi_raised /\ ipi_pending' = ipi_pending
            /\ oops' = oops)]_vars

\* C7: stop-all with two online CPUs.  A CPU that has taken the stop reason
\* is offline and spins in ipi_stop for ever, and the initiator emits the
\* "failed to stop" warning only while another CPU has not taken its stop
\* reason yet.
C7_StopTwoCpus ==
  /\ [](\A c \in CPUs :
         ndispatch[c][IPI_CPU_STOP] >= 1 =>
           (c \notin cpu_online_mask /\ Halted(c)))
  /\ [][\A s \in CPUs :
          ("smp_send_stop" \notin warned[s] /\ "smp_send_stop" \in warned'[s])
            => \E c \in CPUs \ {s} : ndispatch[c][IPI_CPU_STOP] = 0]_vars

\* The thread of CPU s is inside smp_send_stop or crash_smp_send_stop.
InStopCall(s) ==
  \/ pc[s] \in {"stop_loop", "stop_check", "crash_set", "crash_seed",
                 "crash_loop", "crash_check"}
  \/ pc[s] \in {"mask_set", "mask_raise"}
       /\ s_ret[s] \in {"stop_loop", "crash_loop"}

\* C8: smp_send_stop and crash_smp_send_stop always return to the initiator,
\* whatever the other CPUs do.  A wait loop makes at most USEC_PER_SEC
\* polling steps; the warning is emitted exactly when the awaited condition
\* does not hold at the test after the loop; and every call in progress
\* leads to its return.
C8_AlwaysReturns ==
  /\ [](\A s \in CPUs : polls[s] <= USEC_PER_SEC)
  /\ [][\A s \in CPUs :
          /\ (pc[s] = "stop_check" /\ pc'[s] = "idle") =>
               (("smp_send_stop" \in warned'[s]) <=> (num_online_cpus > 1))
          /\ (pc[s] = "crash_check" /\ pc'[s] = "idle") =>
               (("crash_smp_send_stop" \in warned'[s])
                  <=> (waiting_for_crash_ipi > 0))]_vars
  /\ \A s \in CPUs : InStopCall(s) ~> (pc[s] = "idle")

\* Every earlier call of crash_smp_send_stop has returned.
CrashCallsReturned ==
  \A t \in CPUs :
    /\ pc[t] \notin {"crash_set", "crash_seed", "crash_loop", "crash_check"}
    /\ ~(pc[t] \in {"mask_set", "mask_raise"} /\ s_ret[t] = "crash_loop")

\* C9: a call of crash_smp_send_stop made after an earlier call has returned
\* returns at once: the caller stays where it was, no bit is set, no line is
\* raised, the countdown is not written and no broadcast is started, whether
\* or not the earlier call returned early for want of another online CPU.
C9_CrashStopOnce ==
  [][(crash_calls >= 1 /\ crash_calls' = crash_calls + 1
        /\ CrashCallsReturned) =>
       UNCHANGED <<pc, cpus_stopped, waiting_for_crash_ipi, ipi_messages,
                   ipi_pending, ipi_raised, crash_broadcasts, timeout>>]_vars

\* The initiator of the one broadcast polled to the timeout and warned; its
\* second call has cleared the warning and returned, the countdown untouched.
C9_Witness ==
  \E s \in CPUs :
    /\ crash_calls = 2 /\ crash_broadcasts = 1
    /\ CrashCallsReturned /\ pc[s] = "idle"
    /\ polls[s] = USEC_PER_SEC /\ timeout[s] = ULONG_MAX
    /\ waiting_for_crash_ipi > 0
    /\ "crash_smp_send_stop" \notin warned[s]

\* C10: crash-stop countdown accounting.  While crash_smp_send_stop has
\* broadcast at most once (its callers are serialised by the panic path), the
\* countdown is never negative, and after the broadcast (no stop-all having
\* taken a CPU offline meanwhile) it equals the number of targeted CPUs that
\* have not handled their crash-stop reason yet, so it is zero once each of
\* them has.
C10_CountdownAccounting ==
  /\ crash_broadcasts <= 1 => waiting_for_crash_ipi >= 0
  /\ (crash_broadcasts = 1 /\ \A c \in CPUs : nset[c][IPI_CPU_STOP] = 0) =>
       waiting_for_crash_ipi =
         Cardinality({c \in crash_targets :
                        ndispatch[c][IPI_CPU_CRASH_STOP] = 0})

\* The registration state a call of riscv_ipi_set_virq_range can write.
RegState == <<ipi_virq_base, nr_ipi, ipi_desc, irq_requested, irq_hidden,
              irq_enabled, riscv_ipi_for_rfence>>

\* C11: registration is idempotent.  A call of riscv_ipi_set_virq_range made
\* once a range is registered returns from its first test: it changes none of
\* ipi_virq_base, nr_ipi, ipi_desc, the requested, hidden and enabled lines
\* and the rfence key, whatever its arguments, and the caller is where it
\* was; once the first registration has returned no step at all changes
\* ipi_virq_base, nr_ipi or ipi_desc.
C11_RegistrationIdempotent ==
  /\ [][(reg_calls' = reg_calls + 1 /\ ipi_virq_base # 0) =>
          UNCHANGED <<RegState, pc>>]_vars
  /\ [][(ipi_virq_base # 0 /\ ~InRegistration) =>
          UNCHANGED <<ipi_virq_base, nr_ipi, ipi_desc>>]_vars

\* A full range was registered step by step and the call has returned, and a
\* later call that asked for fewer lines has returned too.
C11_Witness ==
  /\ reg_calls >= 2 /\ ipi_virq_base # 0 /\ ~InRegistration
  /\ nr_ipi = IPI_MAX /\ reg_nr < IPI_MAX
  /\ \A i \in Reasons : ipi_desc[i] = ipi_virq_base + i
  /\ irq_enabled[BootCpu] = IpiLines
  /\ "ipi_virq_base" \in reg_warn

\* C12: a registration with fewer lines than reasons is refused.  A call of
\* riscv_ipi_set_virq_range with nr < IPI_MAX made while no range is
\* registered warns and changes nothing: ipi_virq_base stays unset, no
\* handler is requested, no line is enabled or hidden, ipi_desc is untouched.
C12_ShortRegistrationAborted ==
  [][(reg_calls' = reg_calls + 1 /\ ipi_virq_base = 0 /\ reg_nr' < IPI_MAX)
       => ("nr < IPI_MAX" \in reg_warn' /\ UNCHANGED RegState)]_vars

\* C13: the virtual flag round-trips.  Whatever save, save_flags, disable and
\* enable operations a CPU nests, arch_local_irq_restore of a word sets the
\* stall bit to the value it had when that word was captured.
C13_FlagsRoundTrip ==
  [][\A c \in CPUs :
       Len(saved'[c]) = Len(saved[c]) - 1 =>
         stall'[c] = saved[c][Len(saved[c])].was]_vars

\* A CPU has restored an inner word captured while stalled and is stalled,
\* still holding the outer word it captured while unstalled.
C13_Witness ==
  \E c \in CPUs :
    /\ last_restore[c] = <<2, 1>>
    /\ Len(saved[c]) = 1 /\ saved[c][1].was = 0
    /\ saved[c][1].flags = {RISCV_STATUS_IE_BIT}
    /\ stall[c] = 1

\* CPU c takes a step of one of the virtual flag operations.
FlagOp(c) ==
  \/ arch_local_save_flags(c)
  \/ arch_local_irq_save(c)
  \/ arch_local_irq_disable(c)
  \/ arch_local_irq_enable(c)
  \/ arch_local_irq_restore(c)

\* C14: the virtual flag operations touch only the calling CPU's virtual
\* flag: a step of save_flags, save, disable, enable or restore on a CPU
\* leaves the hardware enable bit of every CPU and the stall bit of every
\* other CPU as they were.
C14_FlagsFrame ==
  [][\A c \in CPUs :
       FlagOp(c) => /\ hard_ie' = hard_ie
                    /\ \A d \in CPUs \ {c} : stall'[d] = stall[d]]_vars

\* A CPU whose hardware enable bit is set has restored a word and is
\* stalled, while another CPU has the bit clear and is not stalled.
C14_Witness ==
  \E c \in CPUs, d \in CPUs :
    /\ c # d
    /\ hard_ie[c] /\ stall[c] = 1 /\ last_restore[c] # <<>>
    /\ ~hard_ie[d] /\ stall[d] = 0 /\ last_restore[d] # <<>>

\* C20: arch_irqs_native_to_virtual_flags(f) is bit 31 alone when f
\* has the hardware enable bit clear and zero otherwise,
\* arch_irqs_virtual_to_native_flags(s) is the hardware enable bit alone when
\* s is 0 and zero when s is 1, and arch_irqs_disabled_flags of the output of
\* either helper is 1 exactly when the input was hardware-disabled, stalled.
C20_ConversionsAgree ==
  /\ conv.fn = "native_to_virtual" =>
       /\ conv.out = (IF hard_irqs_disabled_flags(conv.flags) = 1
                        THEN {RISCV_STATIS_SS_BIT} ELSE {})
       /\ (arch_irqs_disabled_flags(conv.out) = 1) <=>
            (hard_irqs_disabled_flags(conv.flags) = 1)
  /\ conv.fn = "virtual_to_native" =>
       /\ conv.out = (IF conv.stalled = 0
                        THEN {RISCV_STATUS_IE_BIT} ELSE {})
       /\ (arch_irqs_disabled_flags(conv.out) = 1) <=> (conv.stalled = 1)

\* C15: the tracker transitions of the stage entry balance.  A call of
\* arch_do_IRQ_pipelined starts the tracker exactly when the interrupted task
\* is the idle task (RCU not being the tiny variant); when it returns it has
\* stopped the tracker as many times as it started it, once or never, the
\* count of open starts is what it was at entry, and the active register
\* frame is the one that was active at entry; at any depth of nesting.
C15_RcuBalanced ==
  /\ \A c \in CPUs :
       irq_done[c] # <<>> =>
         /\ irq_done[c].stops = irq_done[c].starts
         /\ irq_done[c].starts = (IF irq_done[c].idle THEN 1 ELSE 0)
         /\ Len(irq_frames[c]) = irq_done[c].depth - 1 =>
              /\ ct_nesting[c] = irq_done[c].nesting_before
              /\ irq_regs[c] = irq_done[c].regs_before
  /\ \A c \in CPUs :
       /\ irq_frames[c] = <<>> => ct_nesting[c] = 0 /\ irq_regs[c] = "NULL"
       /\ \A k \in 1 .. Len(irq_frames[c]) :
            irq_frames[c][k].starts = (IF irq_frames[c][k].idle THEN 1 ELSE 0)

\* A CPU has returned from an interrupt nested in another, both taken from
\* the idle task, while the other CPU returned from one that did not start
\* the tracker.
C15_Witness ==
  \E c \in CPUs, d \in CPUs :
    /\ irq_done[c] # <<>> /\ irq_done[c].depth = 2 /\ irq_done[c].starts = 1
    /\ Len(irq_frames[c]) = 1 /\ ct_nesting[c] = 1
    /\ irq_done[d] # <<>> /\ irq_done[d].starts = 0 /\ irq_frames[d] = <<>>

\* The logical CPUs that table t maps.
Mapped(t) == {i \in CPUs : t[i] # INVALID_HARTID}

\* C16: the hart id lookup inverts the table.  riscv_hartid_to_cpuid of the
\* hart id of a mapped CPU i is i, at any time, and a call of
\* riscv_hartid_to_cpuid with an id assigned to no CPU, the INVALID_HARTID of
\* the unmapped slots included, returns -ENOENT.
C16_HartidLookup ==
  /\ \A i \in Mapped(cpuid_to_hartid_map) :
       riscv_hartid_to_cpuid(cpuid_to_hartid_map[i]) = i
  /\ lookup.done =>
       IF \E i \in Mapped(lookup.table) : lookup.table[i] = lookup.hartid
       THEN lookup.table[lookup.ret] = lookup.hartid
       ELSE lookup.ret = 0 - ENOENT

\* C17: an unrecognised reason is warned about and ignored.  A step in which
\* __handle_IPI on a CPU takes its default case ("unhandled IPI") changes no
\* online status, crash countdown, pending mask or delivery counter and no
\* other handler runs in it, and the CPU is back at the head of the drain
\* loop of handle_IPI, which goes on with the bits still set.
C17_UnhandledIgnored ==
  [][\A c \in CPUs :
       handler_runs'[c]["unhandled"] # handler_runs[c]["unhandled"] =>
         /\ handler_runs'[c]["unhandled"] = handler_runs[c]["unhandled"] + 1
         /\ \A h \in Handlers \ {"unhandled"} :
              handler_runs'[c][h] = handler_runs[c][h]
         /\ UNCHANGED <<cpu_online_mask, waiting_for_crash_ipi, cpus_stopped,
                        ipi_messages, ipi_counts, ipi_pending, hard_ie,
                        stall>>
         /\ hpc[c] = "dispatch" /\ hpc'[c] = "loop"]_vars

\* A CPU has warned about an unhandled reason and gone on to dispatch another
\* bit of the same mask, and has left handle_IPI online with its mask empty.
C17_Witness ==
  \E c \in CPUs :
    /\ handler_runs[c]["unhandled"] >= 1
    /\ \E q \in Reasons, r \in Reasons :
         q # r /\ ndispatch[c][q] >= 1 /\ ndispatch[c][r] >= 1
    /\ ipi_raised[c][ipi_virq_base] = 1
    /\ hpc[c] = "none" /\ ipi_messages[c] = {} /\ c \in cpu_online_mask

\* C18: the statistics report shows the delivery counters.  In a report
\* show_ipi_stats completed, the value of row r in the column of CPU c is
\* ipi_counts[r] of CPU c as it was when the value was read, the number of
\* times reason r had been dispatched there.
C18_StatsAreCounts ==
  seq_out.shown =>
    \A r \in Reasons : \A c \in DOMAIN seq_out.rows[r] :
      seq_out.rows[r][c] = seq_out.counts[r][c]

\* C19: trap notifications and unwinds balance.  Every evaluation of
\* mark_cond_trap_entry notifies once; it returns true exactly when the CPU
\* runs in-band after the notification, having unwound once when it returns
\* false and not at all when it returns true; so a CPU outside a trap has as
\* many unwinds as notifications and one less while it handles a trap after
\* a true return, but for the calls of mark_trap_exit made after a false
\* return, each of which adds one unwind: a CPU whose handlers call
\* mark_trap_exit after a true return only has exactly one unwind per
\* notification.
C19_TrapBalanced ==
  \A c \in CPUs :
    /\ trap_last[c] # <<>> =>
         /\ trap_last[c].ret <=> trap_last[c].inband
         /\ trap_last[c].unwinds = (IF trap_last[c].ret THEN 0 ELSE 1)
    /\ tpc[c] \in {"none", "unwound", "bug"} =>
         unwinds[c] = notifies[c] + blind_exits[c]
    /\ tpc[c] = "handling" =>
         /\ unwinds[c] = notifies[c] - 1 + blind_exits[c]
         /\ trap_last[c] # <<>> /\ trap_last[c].ret
         /\ stage[c] = "inband"
    /\ tpc[c] \in {"unwound", "bug"} =>
         trap_last[c] # <<>> /\ ~trap_last[c].ret
    /\ (blind_exits[c] = 0 /\ tpc[c] = "none") => unwinds[c] = notifies[c]
    /\ (trap_last[c] = <<>>) <=> (notifies[c] = 0)

\* A CPU whose handlers exit after a true return only has taken two traps,
\* the last one out-of-band and returned false, and another CPU is handling
\* its second trap after a true return.
C19_Witness ==
  \E c \in CPUs, d \in CPUs :
    /\ c # d
    /\ notifies[c] = 2 /\ unwinds[c] = 2 /\ tpc[c] = "none"
    /\ blind_exits[c] = 0
    /\ trap_last[c] # <<>> /\ ~trap_last[c].ret /\ stage[c] = "oob"
    /\ tpc[d] = "handling" /\ notifies[d] = 2

=============================================================================
